---------------------------- MODULE Spec2Model ----------------------------
(***************************************************************************)
(* A model of the CHIP-8 interpreter: Ram (ram.rs), Timer (timer.rs), the  *)
(* CPU's fetch / decode / execute (cpu.rs), the pixel grid (display.rs)    *)
(* and the machine CHIP8 that owns them (chip8.rs).                        *)
(*                                                                         *)
(* Representation.  memory: [u8; 4096] is held as the finite map of its    *)
(* non-zero bytes (MemAt reads it, MemWrite keeps the map canonical), and  *)
(* pixels: [[bool; 64]; 32] as the set of the <<row, column>> pairs that   *)
(* are true.  Both are one-to-one encodings of the arrays.  Time is the    *)
(* monotonic clock in microseconds, the unit Timer::get_value reads.       *)
(***************************************************************************)
EXTENDS Integers, Sequences, FiniteSets, TLC

VARIABLES
    cpu,              \* CHIP8.cpu: CPU {pc, i, registers, stack, delay_timer, sound_timer}
    ram,              \* CHIP8.ram: Ram {memory}
    display,          \* CHIP8.display: Display {pixels}
    now,              \* Instant::now(), microseconds since the machine was created
    overflow_checks,  \* build profile: TRUE = integer overflow panics, FALSE = it wraps
    panic,            \* "" while the process runs, else the panic that aborted it
    timer,            \* a Timer owned by a caller of timer.rs
    word,             \* the 16-bit word last handed to CPU::decode
    instruction,      \* what CPU::decode returned for it
    position,         \* where main is: "load_rom", or in CHIP8::tick at "fetch", "decode", "execute"
    log               \* history: the operations performed, each with the state before it

vars ==
    <<cpu, ram, display, now, overflow_checks, panic, timer, word, instruction,
      position, log>>

---------------------------------------------------------------------------
(* constant.rs *)

CHIP8_DISPLAY_HEIGHT == 32
CHIP8_DISPLAY_WIDTH == 64
GENERAL_PURPOSE_REGISTERS_COUNT == 16
MEMORY_SIZE == 4096
FONT_LOCATION == 80
ROM_START_LOCATION == 512

---------------------------------------------------------------------------
(* Machine integers *)

U8_MAX == 255
U16_MAX == 65535

\* usize is 64 bits wide on the targets; TLC's integers are 32 bits wide, so the
\* modulus of a wrapped usize is represented by 2^30, which like 2^64 lies far
\* above every length and address the program can form here.
UsizeModulus == 2 ^ 30

Byte == 0 .. U8_MAX

Pow2(n) == 2 ^ n

\* bit k (0 = least significant) of v
Bit(v, k) == (v \div Pow2(k)) % 2

BitAnd(a, b) ==
    LET W(k) == Pow2(k) * (Bit(a, k) * Bit(b, k))
    IN  W(0) + W(1) + W(2) + W(3) + W(4) + W(5) + W(6) + W(7)

BitOr(a, b) == a + b - BitAnd(a, b)

BitXor(a, b) == a + b - 2 * BitAnd(a, b)

\* u8::overflowing_add
overflowing_add(a, b) ==
    [value |-> (a + b) % 256, overflow |-> a + b > U8_MAX]

\* u8::overflowing_sub
overflowing_sub(a, b) ==
    [value |-> (a - b + 256) % 256, overflow |-> a < b]

---------------------------------------------------------------------------
(* ram.rs *)

\* memory[a] of the array the map m encodes
MemAt(m, a) == IF a \in DOMAIN m THEN m[a] ELSE 0

\* memory[a] = v
MemWrite(m, a, v) ==
    IF v = 0
    THEN [b \in DOMAIN m \ {a} |-> m[b]]
    ELSE [b \in DOMAIN m \cup {a} |-> IF b = a THEN v ELSE m[b]]

\* memory[first .. first + Len(bytes)).copy_from_slice(bytes)
MemCopy(m, first, bytes) ==
    LET span == first .. (first + Len(bytes) - 1)
        at(b) == IF b \in span THEN bytes[b - first + 1] ELSE MemAt(m, b)
        dom == {b \in DOMAIN m \cup span : at(b) # 0}
    IN  [b \in dom |-> at(b)]

\* Ram::new
RamNew == [memory |-> <<>>]

Ok == [tag |-> "Ok"]
InvalidRomSize(len) == [tag |-> "InvalidRomSize", len |-> len]
Aborted(message) == [tag |-> "panic", message |-> message]

\* Ram::load_rom with the destination slice starting one byte late
RamLoadRomShifted(r, rom_data, checks) ==
    LET len == Len(rom_data)
        diff == MEMORY_SIZE - len
        room == IF diff < 0 THEN diff + UsizeModulus ELSE diff
    IN  IF diff < 0 /\ checks
        THEN [ram |-> r, result |-> Aborted("attempt to subtract with overflow")]
        ELSE IF room < 512
        THEN [ram |-> r, result |-> InvalidRomSize(len)]
        ELSE IF 512 + len > MEMORY_SIZE
        THEN [ram |-> r, result |-> Aborted("range end index out of range")]
        ELSE [ram |-> [r EXCEPT !.memory = MemCopy(r.memory, 513, rom_data)],
              result |-> Ok]

\* Ram::load_rom: the Ram afterwards and what the call returned.  The guard
\* subtracts two usize values: when the ROM is longer than the memory the
\* subtraction overflows, which panics under overflow checks and otherwise wraps
\* to a huge value, so the guard lets the call through to the slice, whose end
\* then lies past the array.
RamLoadRom(r, rom_data, checks) ==
    LET len == Len(rom_data)
        diff == MEMORY_SIZE - len
        room == IF diff < 0 THEN diff + UsizeModulus ELSE diff
    IN  IF diff < 0 /\ checks
        THEN [ram |-> r, result |-> Aborted("attempt to subtract with overflow")]
        ELSE IF room < 512
        THEN [ram |-> r, result |-> InvalidRomSize(len)]
        ELSE IF 512 + len > MEMORY_SIZE
        THEN [ram |-> r, result |-> Aborted("range end index out of range")]
        ELSE [ram |-> [r EXCEPT !.memory = MemCopy(r.memory, 512, rom_data)],
              result |-> Ok]

---------------------------------------------------------------------------
(* timer.rs *)

\* 1000000 / self.frequency as u64, in microseconds
TickMicros(t) == 1000000 \div t.frequency

\* Timer::new at the instant at
TimerNew(at) == [value |-> 0, frequency |-> 60, start |-> at]

\* Timer::set_value at the instant at
TimerSetValue(t, value, at) == [t EXCEPT !.value = value, !.start = at]

\* self.start.elapsed(): Instant's subtraction saturates at zero when start lies
\* ahead of the clock
Elapsed(t, at) == IF at >= t.start THEN at - t.start ELSE 0

\* Timer::get_value without the guard on ticks > u8::MAX: `ticks as u8` wraps
TimerGetValueUnguarded(t, at) ==
    LET ticks == Elapsed(t, at) \div TickMicros(t)
        start == t.start + 1000000 * ticks
        sub == overflowing_sub(t.value, ticks % 256)
    IN  [t EXCEPT !.start = start,
                  !.value = sub.value * (IF sub.overflow THEN 0 ELSE 1)]

\* Timer::get_value at the instant at: the Timer afterwards (the value returned
\* is its field value)
TimerGetValue(t, at) ==
    LET ticks == Elapsed(t, at) \div TickMicros(t)
        start == t.start + 1000000 * ticks
        sub == overflowing_sub(t.value, ticks % 256)
    IN  IF ticks > U8_MAX
        THEN [t EXCEPT !.start = start, !.value = 0]
        ELSE [t EXCEPT !.start = start,
                       !.value = sub.value * (IF sub.overflow THEN 0 ELSE 1)]

---------------------------------------------------------------------------
(* cpu.rs: enum Instruction, enum AluOp *)

ClearScreen == [op |-> "ClearScreen"]
Return == [op |-> "Return"]
Jump(nnn) == [op |-> "Jump", nnn |-> nnn]
CallSub(nnn) == [op |-> "CallSub", nnn |-> nnn]
SkipEq(x, nn) == [op |-> "SkipEq", x |-> x, nn |-> nn]
SkipNEq(x, nn) == [op |-> "SkipNEq", x |-> x, nn |-> nn]
SkipRegEq(x, y) == [op |-> "SkipRegEq", x |-> x, y |-> y]
Set(x, nn) == [op |-> "Set", x |-> x, nn |-> nn]
Add(x, nn) == [op |-> "Add", x |-> x, nn |-> nn]
AluOperation(x, y, operation) ==
    [op |-> "AluOperation", x |-> x, y |-> y, operation |-> operation]
SkipRegNEq(x, y) == [op |-> "SkipRegNEq", x |-> x, y |-> y]
SetIndex(nnn) == [op |-> "SetIndex", nnn |-> nnn]
JumpWithOffset(nnn) == [op |-> "JumpWithOffset", nnn |-> nnn]
Random(x, nn) == [op |-> "Random", x |-> x, nn |-> nn]
Display(x, y, height) == [op |-> "Display", x |-> x, y |-> y, height |-> height]
SkipIfPressed(x) == [op |-> "SkipIfPressed", x |-> x]
SkipIfNotPressed(x) == [op |-> "SkipIfNotPressed", x |-> x]
GetDelayTimer(x) == [op |-> "GetDelayTimer", x |-> x]
WaitForKey(x) == [op |-> "WaitForKey", x |-> x]
SetDelayTimer(x) == [op |-> "SetDelayTimer", x |-> x]
SetSoundTimer(x) == [op |-> "SetSoundTimer", x |-> x]
AddToIndex(x) == [op |-> "AddToIndex", x |-> x]
SetIndexToFontLocation(x) == [op |-> "SetIndexToFontLocation", x |-> x]
BCDConversion(x) == [op |-> "BCDConversion", x |-> x]
Store(x) == [op |-> "Store", x |-> x]
Load(x) == [op |-> "Load", x |-> x]
Unknown(w) == [op |-> "Unknown", word |-> w]

AluOp ==
    {"LoadRegReg", "Or", "And", "Xor", "AddRegReg", "Sub", "ShiftRight", "SubNeg",
     "ShiftLeft"}

---------------------------------------------------------------------------
(* cpu.rs: CPU::decode *)

\* the inner match of the 0x80 family on low_byte & 0x0F; "" is its `_` arm,
\* which returns Unknown from decode
DecodeAluOp(low_nibble) ==
    CASE low_nibble = 0 -> "LoadRegReg"
      [] low_nibble = 1 -> "Or"
      [] low_nibble = 2 -> "And"
      [] low_nibble = 3 -> "Xor"
      [] low_nibble = 4 -> "AddRegReg"
      [] low_nibble = 5 -> "Sub"
      [] low_nibble = 6 -> "ShiftRight"
      [] low_nibble = 7 -> "SubNeg"
      [] low_nibble = 14 -> "ShiftLeft"
      [] OTHER -> ""

\* The body of CPU::decode after its two bytes are taken from the word.  The last
\* arm of the match on opcode is unreachable_unchecked():
\* opcode = high_byte & 0xF0 is always one of the sixteen listed values, so the
\* arm is never taken; it is kept here as the value Unreachable.
Unreachable == [op |-> "unreachable_unchecked"]

DecodeMatch(w, high_byte, low_byte) ==
    LET x == BitAnd(high_byte, 15)
        y == BitAnd(low_byte, 240) \div 16
        nn == low_byte
        nnn == w % 4096
        opcode == BitAnd(high_byte, 240)
    IN  CASE opcode = 0 ->
               (CASE low_byte = 224 -> ClearScreen
                  [] low_byte = 238 -> Return
                  [] OTHER -> Unknown(w))
          [] opcode = 16 -> Jump(nnn)
          [] opcode = 32 -> CallSub(nnn)
          [] opcode = 48 -> SkipEq(x, nn)
          [] opcode = 64 -> SkipNEq(x, nn)
          [] opcode = 80 -> SkipRegEq(x, y)
          [] opcode = 96 -> Set(x, nn)
          [] opcode = 112 -> Add(x, nn)
          [] opcode = 128 ->
               (IF DecodeAluOp(BitAnd(low_byte, 15)) = ""
                THEN Unknown(w)
                ELSE AluOperation(x, y, DecodeAluOp(BitAnd(low_byte, 15))))
          [] opcode = 144 -> SkipRegNEq(x, y)
          [] opcode = 160 -> SetIndex(nnn)
          [] opcode = 176 -> JumpWithOffset(nnn)
          [] opcode = 192 -> Random(x, nn)
          [] opcode = 208 -> Display(x, y, BitAnd(low_byte, 15))
          [] opcode = 224 ->
               (CASE low_byte = 158 -> SkipIfPressed(x)
                  [] low_byte = 161 -> SkipIfNotPressed(x)
                  [] OTHER -> Unknown(w))
          [] opcode = 240 ->
               (CASE low_byte = 7 -> GetDelayTimer(x)
                  [] low_byte = 10 -> WaitForKey(x)
                  [] low_byte = 21 -> SetDelayTimer(x)
                  [] low_byte = 24 -> SetSoundTimer(x)
                  [] low_byte = 30 -> AddToIndex(x)
                  [] low_byte = 41 -> SetIndexToFontLocation(x)
                  [] low_byte = 51 -> BCDConversion(x)
                  [] low_byte = 85 -> Store(x)
                  [] low_byte = 101 -> Load(x)
                  [] OTHER -> Unknown(w))
          [] OTHER -> Unreachable

\* CPU::decode with the two bytes of the word taken in the other order
decodeSwapped(w) == DecodeMatch(w, w % 256, (w \div 256) % 256)

\* CPU::decode: low_byte = instruction as u8, high_byte = (instruction >> 8) as u8
decode(w) == DecodeMatch(w, (w \div 256) % 256, w % 256)

---------------------------------------------------------------------------
(* cpu.rs: struct CPU, CPU::new, CPU::fetch *)

Registers == 0 .. (GENERAL_PURPOSE_REGISTERS_COUNT - 1)

\* CPU::new at the instant at
CpuNew(at) ==
    [pc |-> 0,
     i |-> 0,
     registers |-> [r \in Registers |-> 0],
     stack |-> <<>>,
     delay_timer |-> TimerNew(at),
     sound_timer |-> TimerNew(at)]

\* a + b on u16: past u16::MAX it panics under overflow checks and wraps otherwise
AddU16(a, b, checks) ==
    IF a + b > U16_MAX
    THEN [value |-> (a + b) % 65536,
          panic |-> IF checks THEN "attempt to add with overflow" ELSE ""]
    ELSE [value |-> a + b, panic |-> ""]

\* What a step of the CPU leaves behind: the CPU, the memory, the pixels and the
\* panic that ended it ("" when it returned).
Outcome(c, memory, pixels, message) ==
    [cpu |-> c, memory |-> memory, pixels |-> pixels, panic |-> message]

\* self.pc += 1 in place of self.pc += 2
SkipNextOne(c, memory, pixels, checks) ==
    LET sum == AddU16(c.pc, 1, checks)
    IN  IF sum.panic # ""
        THEN Outcome(c, memory, pixels, sum.panic)
        ELSE Outcome([c EXCEPT !.pc = sum.value], memory, pixels, "")

\* self.pc += 2
SkipNext(c, memory, pixels, checks) ==
    LET sum == AddU16(c.pc, 2, checks)
    IN  IF sum.panic # ""
        THEN Outcome(c, memory, pixels, sum.panic)
        ELSE Outcome([c EXCEPT !.pc = sum.value], memory, pixels, "")

\* CPU::fetch with the byte at pc taken as the low byte of the word
fetchLittleEndian(c, memory, checks) ==
    IF c.pc >= MEMORY_SIZE \/ c.pc + 1 >= MEMORY_SIZE
    THEN [word |-> 0, cpu |-> c, panic |-> "index out of bounds"]
    ELSE LET sum == AddU16(c.pc, 2, checks)
         IN  [word |-> MemAt(memory, c.pc + 1) * 256 + MemAt(memory, c.pc),
              cpu |-> [c EXCEPT !.pc = sum.value],
              panic |-> sum.panic]

\* CPU::fetch: the word read and the CPU afterwards; indexing the array past its
\* end panics
fetch(c, memory, checks) ==
    IF c.pc >= MEMORY_SIZE \/ c.pc + 1 >= MEMORY_SIZE
    THEN [word |-> 0, cpu |-> c, panic |-> "index out of bounds"]
    ELSE LET sum == AddU16(c.pc, 2, checks)
         IN  [word |-> MemAt(memory, c.pc) * 256 + MemAt(memory, c.pc + 1),
              cpu |-> [c EXCEPT !.pc = sum.value],
              panic |-> sum.panic]

---------------------------------------------------------------------------
(* cpu.rs: CPU::execute, Instruction::AluOperation *)

\* registers[x] = result and then registers[0xF] = flag, in this order
Flagged(registers, x, result, flag) ==
    [[registers EXCEPT ![x] = result] EXCEPT ![15] = flag]

\* AluOp::AddRegReg with the flag written before the sum
AluAddRegRegFlagFirst(registers, x, y) ==
    LET add == overflowing_add(registers[x], registers[y])
    IN  [[registers EXCEPT ![15] = IF add.overflow THEN 1 ELSE 0]
            EXCEPT ![x] = add.value]

\* AluOp::AddRegReg: VF = overflow as u8
AluAddRegReg(registers, x, y) ==
    LET add == overflowing_add(registers[x], registers[y])
    IN  Flagged(registers, x, add.value, IF add.overflow THEN 1 ELSE 0)

\* AluOp::Sub: VF = !overflow as u8
AluSub(registers, x, y) ==
    LET sub == overflowing_sub(registers[x], registers[y])
    IN  Flagged(registers, x, sub.value, IF sub.overflow THEN 0 ELSE 1)

\* AluOp::SubNeg with the operands in the order of Sub
AluSubNegAsSub(registers, x, y) ==
    LET sub == overflowing_sub(registers[x], registers[y])
    IN  Flagged(registers, x, sub.value, IF sub.overflow THEN 0 ELSE 1)

\* AluOp::SubNeg: Vy - Vx, VF = !overflow as u8
AluSubNeg(registers, x, y) ==
    LET sub == overflowing_sub(registers[y], registers[x])
    IN  Flagged(registers, x, sub.value, IF sub.overflow THEN 0 ELSE 1)

\* AluOp::ShiftRight with the low bit of Vx written to VF after the shift
AluShiftRightToFlag(registers, x, y) ==
    Flagged(registers, x, registers[x] \div 2, registers[x] % 2)

\* AluOp::ShiftRight: registers[y] = the low bit of Vx, and then registers[x],
\* as it stands after that write, is shifted
AluShiftRight(registers, x, y) ==
    LET r1 == [registers EXCEPT ![y] = IF BitAnd(registers[x], 1) = 1 THEN 1 ELSE 0]
    IN  [r1 EXCEPT ![x] = r1[x] \div 2]

\* AluOp::ShiftLeft: registers[y] = the high bit of Vx, and then registers[x],
\* as it stands after that write, is shifted
AluShiftLeft(registers, x, y) ==
    LET r1 == [registers EXCEPT ![y] = IF BitAnd(registers[x], 128) = 128 THEN 1 ELSE 0]
    IN  [r1 EXCEPT ![x] = (r1[x] * 2) % 256]

\* AluOperation with Or, And and Xor clearing VF after the result is written
ExecuteAluClearingFlag(registers, x, y, operation) ==
    LET vx == registers[x]
        vy == registers[y]
    IN  CASE operation = "LoadRegReg" -> [registers EXCEPT ![x] = vy]
          [] operation = "Or" -> Flagged(registers, x, BitOr(vx, vy), 0)
          [] operation = "And" -> Flagged(registers, x, BitAnd(vx, vy), 0)
          [] operation = "Xor" -> Flagged(registers, x, BitXor(vx, vy), 0)
          [] operation = "AddRegReg" -> AluAddRegReg(registers, x, y)
          [] operation = "Sub" -> AluSub(registers, x, y)
          [] operation = "ShiftRight" -> AluShiftRight(registers, x, y)
          [] operation = "SubNeg" -> AluSubNeg(registers, x, y)
          [] operation = "ShiftLeft" -> AluShiftLeft(registers, x, y)

\* the registers after AluOperation {x, y, operation}
ExecuteAlu(registers, x, y, operation) ==
    LET vx == registers[x]
        vy == registers[y]
    IN  CASE operation = "LoadRegReg" -> [registers EXCEPT ![x] = vy]
          [] operation = "Or" -> [registers EXCEPT ![x] = BitOr(vx, vy)]
          [] operation = "And" -> [registers EXCEPT ![x] = BitAnd(vx, vy)]
          [] operation = "Xor" -> [registers EXCEPT ![x] = BitXor(vx, vy)]
          [] operation = "AddRegReg" -> AluAddRegReg(registers, x, y)
          [] operation = "Sub" -> AluSub(registers, x, y)
          [] operation = "ShiftRight" -> AluShiftRight(registers, x, y)
          [] operation = "SubNeg" -> AluSubNeg(registers, x, y)
          [] operation = "ShiftLeft" -> AluShiftLeft(registers, x, y)

---------------------------------------------------------------------------
(* cpu.rs: CPU::execute, Instruction::Display *)

\* the inner loop with a set bit turning its pixel on instead of toggling it
RECURSIVE DrawRowOr(_, _, _, _, _, _)
DrawRowOr(pixels, vf, row, at_row, x_cord, m) ==
    IF m >= 8 \/ x_cord + m >= CHIP8_DISPLAY_WIDTH
    THEN [pixels |-> pixels, vf |-> vf]
    ELSE LET bit == Bit(row, 7 - m) = 1
             p == <<at_row, x_cord + m>>
         IN  IF bit
             THEN DrawRowOr(pixels \cup {p},
                            IF p \in pixels THEN 1 ELSE vf,
                            row, at_row, x_cord, m + 1)
             ELSE DrawRowOr(pixels, vf, row, at_row, x_cord, m + 1)

\* the inner loop with the collision looked up after the pixel is toggled
RECURSIVE DrawRowLate(_, _, _, _, _, _)
DrawRowLate(pixels, vf, row, at_row, x_cord, m) ==
    IF m >= 8 \/ x_cord + m >= CHIP8_DISPLAY_WIDTH
    THEN [pixels |-> pixels, vf |-> vf]
    ELSE LET bit == Bit(row, 7 - m) = 1
             p == <<at_row, x_cord + m>>
         IN  IF bit
             THEN DrawRowLate(IF p \in pixels THEN pixels \ {p} ELSE pixels \cup {p},
                              IF p \notin pixels THEN 1 ELSE vf,
                              row, at_row, x_cord, m + 1)
             ELSE DrawRowLate(pixels, vf, row, at_row, x_cord, m + 1)

\* the inner loop with a column past the right edge carried to the left edge
RECURSIVE DrawRowWrapped(_, _, _, _, _, _)
DrawRowWrapped(pixels, vf, row, at_row, x_cord, m) ==
    IF m >= 8
    THEN [pixels |-> pixels, vf |-> vf]
    ELSE LET bit == Bit(row, 7 - m) = 1
             p == <<at_row, (x_cord + m) % CHIP8_DISPLAY_WIDTH>>
         IN  IF bit
             THEN DrawRowWrapped(IF p \in pixels THEN pixels \ {p} ELSE pixels \cup {p},
                                 IF p \in pixels THEN 1 ELSE vf,
                                 row, at_row, x_cord, m + 1)
             ELSE DrawRowWrapped(pixels, vf, row, at_row, x_cord, m + 1)

\* the inner loop `for m in 0..8` over one sprite row, from column m on:
\* the pixels and VF after it
RECURSIVE DrawRow(_, _, _, _, _, _)
DrawRow(pixels, vf, row, at_row, x_cord, m) ==
    IF m >= 8 \/ x_cord + m >= CHIP8_DISPLAY_WIDTH
    THEN [pixels |-> pixels, vf |-> vf]
    ELSE LET bit == Bit(row, 7 - m) = 1
             p == <<at_row, x_cord + m>>
         IN  IF bit
             THEN DrawRow(IF p \in pixels THEN pixels \ {p} ELSE pixels \cup {p},
                          IF p \in pixels THEN 1 ELSE vf,
                          row, at_row, x_cord, m + 1)
             ELSE DrawRow(pixels, vf, row, at_row, x_cord, m + 1)

\* the outer loop `for n in 0..height`, from row n on; memory[i + n] past the
\* array panics with the rows above already drawn
RECURSIVE DrawRows(_, _, _, _, _, _, _, _)
DrawRows(pixels, vf, memory, i, height, x_cord, y_cord, n) ==
    IF n >= height \/ y_cord + n >= CHIP8_DISPLAY_HEIGHT
    THEN [pixels |-> pixels, vf |-> vf, panic |-> ""]
    ELSE IF i + n >= MEMORY_SIZE
    THEN [pixels |-> pixels, vf |-> vf, panic |-> "index out of bounds"]
    ELSE LET drawn == DrawRow(pixels, vf, MemAt(memory, i + n), y_cord + n, x_cord, 0)
         IN  DrawRows(drawn.pixels, drawn.vf, memory, i, height, x_cord, y_cord, n + 1)

\* Instruction::Display without `self.registers[0xF] = 0` before the loops
ExecuteDisplayKeepFlag(c, x, y, height, memory, pixels) ==
    LET x_cord == c.registers[x] % CHIP8_DISPLAY_WIDTH
        y_cord == c.registers[y] % CHIP8_DISPLAY_HEIGHT
        drawn == DrawRows(pixels, c.registers[15], memory, c.i, height, x_cord, y_cord, 0)
    IN  Outcome([c EXCEPT !.registers[15] = drawn.vf], memory, drawn.pixels,
                drawn.panic)

\* Instruction::Display {x, y, height}; display.render() hands the grid to the
\* backend, which does not change it
ExecuteDisplay(c, x, y, height, memory, pixels) ==
    LET x_cord == c.registers[x] % CHIP8_DISPLAY_WIDTH
        y_cord == c.registers[y] % CHIP8_DISPLAY_HEIGHT
        drawn == DrawRows(pixels, 0, memory, c.i, height, x_cord, y_cord, 0)
    IN  Outcome([c EXCEPT !.registers[15] = drawn.vf], memory, drawn.pixels,
                drawn.panic)

---------------------------------------------------------------------------
(* cpu.rs: CPU::execute, the instructions that address memory through i *)

\* Instruction::AddToIndex(x): self.i += Vx is a u16 addition
ExecuteAddToIndex(c, x, memory, pixels, checks) ==
    LET old_i == c.i
        sum == AddU16(c.i, c.registers[x], checks)
        c1 == [c EXCEPT !.i = sum.value]
    IN  IF sum.panic # ""
        THEN Outcome(c, memory, pixels, sum.panic)
        ELSE IF c1.i > 4095 /\ old_i <= 4095
        THEN Outcome([c1 EXCEPT !.registers[x] = 1], memory, pixels, "")
        ELSE Outcome(c1, memory, pixels, "")

\* Instruction::BCDConversion(x): three indexed writes, at i, i + i and i + 2,
\* each of which panics past the array with the writes before it done
ExecuteBCDConversion(c, x, memory, pixels) ==
    LET vx == c.registers[x]
        i == c.i
        m1 == MemWrite(memory, i, vx \div 100)
        m2 == MemWrite(m1, i + i, (vx \div 10) % 10)
        m3 == MemWrite(m2, i + 2, vx % 10)
    IN  IF i >= MEMORY_SIZE
        THEN Outcome(c, memory, pixels, "index out of bounds")
        ELSE IF i + i >= MEMORY_SIZE
        THEN Outcome(c, m1, pixels, "index out of bounds")
        ELSE IF i + 2 >= MEMORY_SIZE
        THEN Outcome(c, m2, pixels, "index out of bounds")
        ELSE Outcome(c, m3, pixels, "")

\* registers[0..=x] as a slice
RegisterSlice(registers, x) == [k \in 1 .. (x + 1) |-> registers[k - 1]]

\* Instruction::Store(x): memory[i..=(i + x)].copy_from_slice(&registers[0..=x])
ExecuteStore(c, x, memory, pixels) ==
    IF c.i + x >= MEMORY_SIZE
    THEN Outcome(c, memory, pixels, "range end index out of range")
    ELSE Outcome(c, MemCopy(memory, c.i, RegisterSlice(c.registers, x)), pixels, "")

\* Instruction::Load(x) with the range 0..x in place of 0..=x
ExecuteLoadExclusive(c, x, memory, pixels) ==
    IF c.i + x >= MEMORY_SIZE
    THEN Outcome(c, memory, pixels, "range end index out of range")
    ELSE Outcome([c EXCEPT !.registers =
                      [r \in Registers |->
                          IF r < x THEN MemAt(memory, c.i + r) ELSE c.registers[r]]],
                 memory, pixels, "")

\* Instruction::Load(x): registers[0..=x].copy_from_slice(&memory[i..=(i + x)])
ExecuteLoad(c, x, memory, pixels) ==
    IF c.i + x >= MEMORY_SIZE
    THEN Outcome(c, memory, pixels, "range end index out of range")
    ELSE Outcome([c EXCEPT !.registers =
                      [r \in Registers |->
                          IF r <= x THEN MemAt(memory, c.i + r) ELSE c.registers[r]]],
                 memory, pixels, "")

---------------------------------------------------------------------------
(* cpu.rs: CPU::execute *)

\* What the collaborators hand to one execute: the clock, the byte fastrand::u8
\* draws, the keys display.read_keys() reports, the key display.wait_for_key()
\* returns, and the build's overflow checks.
Env(at, random, pressed_keys, key, checks) ==
    [now |-> at, random |-> random, pressed_keys |-> pressed_keys, key |-> key,
     checks |-> checks]

\* Instruction::Return with an empty stack passed over in silence
ExecuteReturnIgnored(c, memory, pixels) ==
    IF c.stack = <<>>
    THEN Outcome(c, memory, pixels, "")
    ELSE Outcome([c EXCEPT !.pc = c.stack[Len(c.stack)],
                           !.stack = SubSeq(c.stack, 1, Len(c.stack) - 1)],
                 memory, pixels, "")

\* Instruction::Return taking the oldest address of the stack
ExecuteReturnOldest(c, memory, pixels) ==
    IF c.stack = <<>>
    THEN Outcome(c, memory, pixels, "Return while stack is empty.")
    ELSE Outcome([c EXCEPT !.pc = c.stack[1], !.stack = Tail(c.stack)],
                 memory, pixels, "")

\* Instruction::Return: self.pc = self.stack.pop().expect(..)
ExecuteReturn(c, memory, pixels) ==
    IF c.stack = <<>>
    THEN Outcome(c, memory, pixels, "Return while stack is empty.")
    ELSE Outcome([c EXCEPT !.pc = c.stack[Len(c.stack)],
                           !.stack = SubSeq(c.stack, 1, Len(c.stack) - 1)],
                 memory, pixels, "")

\* Instruction::WaitForKey stepping over the next instruction as well
ExecuteWaitForKeySkipping(c, x, key, memory, pixels) ==
    Outcome([c EXCEPT !.registers[x] = key, !.pc = (c.pc + 2) % 65536],
            memory, pixels, "")

\* Instruction::WaitForKey once display.wait_for_key() has returned key:
\* self.registers[x as usize] = key
ExecuteWaitForKey(c, x, key, memory, pixels) ==
    Outcome([c EXCEPT !.registers[x] = key], memory, pixels, "")

execute(c, instr, memory, pixels, env) ==
    LET op == instr.op
        V == c.registers
        same(c1) == Outcome(c1, memory, pixels, "")
        skip_if(cond) ==
            IF cond THEN SkipNext(c, memory, pixels, env.checks) ELSE same(c)
    IN  CASE op = "ClearScreen" -> Outcome(c, memory, {}, "")
          [] op = "Return" -> ExecuteReturn(c, memory, pixels)
          [] op = "Jump" -> same([c EXCEPT !.pc = instr.nnn])
          [] op = "CallSub" ->
               same([c EXCEPT !.stack = Append(c.stack, c.pc), !.pc = instr.nnn])
          [] op = "SkipEq" -> skip_if(V[instr.x] = instr.nn)
          [] op = "SkipNEq" -> skip_if(V[instr.x] # instr.nn)
          [] op = "SkipRegEq" -> skip_if(V[instr.x] = V[instr.y])
          [] op = "Set" -> same([c EXCEPT !.registers[instr.x] = instr.nn])
          [] op = "Add" ->
               same([c EXCEPT !.registers[instr.x] = (V[instr.x] + instr.nn) % 256])
          [] op = "AluOperation" ->
               same([c EXCEPT !.registers =
                         ExecuteAlu(V, instr.x, instr.y, instr.operation)])
          [] op = "SkipRegNEq" -> skip_if(V[instr.x] # V[instr.y])
          [] op = "SetIndex" -> same([c EXCEPT !.i = instr.nnn])
          [] op = "JumpWithOffset" -> same([c EXCEPT !.pc = instr.nnn + V[0]])
          [] op = "Random" ->
               same([c EXCEPT !.registers[instr.x] = BitAnd(env.random, instr.nn)])
          [] op = "Display" ->
               ExecuteDisplay(c, instr.x, instr.y, instr.height, memory, pixels)
          [] op = "SkipIfPressed" -> skip_if(V[instr.x] \in env.pressed_keys)
          [] op = "SkipIfNotPressed" -> skip_if(V[instr.x] \notin env.pressed_keys)
          [] op = "GetDelayTimer" ->
               (LET t == TimerGetValue(c.delay_timer, env.now)
                IN  same([c EXCEPT !.delay_timer = t, !.registers[instr.x] = t.value]))
          [] op = "WaitForKey" ->
               ExecuteWaitForKey(c, instr.x, env.key, memory, pixels)
          [] op = "SetDelayTimer" ->
               same([c EXCEPT !.delay_timer =
                         TimerSetValue(c.delay_timer, V[instr.x], env.now)])
          [] op = "SetSoundTimer" ->
               same([c EXCEPT !.sound_timer =
                         TimerSetValue(c.sound_timer, V[instr.x], env.now)])
          [] op = "AddToIndex" ->
               ExecuteAddToIndex(c, instr.x, memory, pixels, env.checks)
          [] op = "SetIndexToFontLocation" ->
               same([c EXCEPT !.i = instr.x * 5 + FONT_LOCATION])
          [] op = "BCDConversion" -> ExecuteBCDConversion(c, instr.x, memory, pixels)
          [] op = "Store" -> ExecuteStore(c, instr.x, memory, pixels)
          [] op = "Load" -> ExecuteLoad(c, instr.x, memory, pixels)
          [] op = "Unknown" -> Outcome(c, memory, pixels, "Unknown instruction")

---------------------------------------------------------------------------
(* chip8.rs: CHIP8::new, CHIP8::load_rom *)

\* CHIP8::new at the instant at: the three parts of the machine
Chip8New(at) == [cpu |-> CpuNew(at), ram |-> RamNew, display |-> [pixels |-> {}]]

\* CHIP8::load_rom: pc is set first, then the ROM is handed to Ram::load_rom
Chip8LoadRom(c, r, rom_data, checks) ==
    LET loaded == RamLoadRom(r, rom_data, checks)
    IN  [cpu |-> [c EXCEPT !.pc = ROM_START_LOCATION],
         ram |-> loaded.ram,
         result |-> loaded.result]

---------------------------------------------------------------------------
(* The state machine: what every specification below shares *)

\* Instant 0: a Timer::new() of the caller's, nothing loaded or decoded, nothing
\* done yet; the build is either profile
Fresh ==
    /\ now = 0
    /\ overflow_checks \in BOOLEAN
    /\ panic = ""
    /\ timer = TimerNew(0)
    /\ word = 0
    /\ instruction = [op |-> ""]
    /\ position = "load_rom"
    /\ log = <<>>

\* the machine starts as m
StartsAs(m) == cpu = m.cpu /\ ram = m.ram /\ display = m.display

\* CHIP8::new() at instant 0
Created == Fresh /\ StartsAs(Chip8New(0))

\* the machine as one value, for the history
Machine == [cpu |-> cpu, ram |-> ram, display |-> display]

\* the state operation number k of the history left behind
After(k) == IF k = Len(log) THEN Machine ELSE log[k + 1].before

\* One call of CPU::execute on the machine's parts, as CHIP8::tick makes it after
\* fetch and decode.  A panic ends the process: nothing runs after it.
Execute(instr, env) ==
    /\ panic = ""
    /\ LET out == execute(cpu, instr, ram.memory, display.pixels, env)
       IN  /\ cpu' = out.cpu
           /\ ram' = [ram EXCEPT !.memory = out.memory]
           /\ display' = [display EXCEPT !.pixels = out.pixels]
           /\ panic' = out.panic
           /\ log' = Append(log, [op |-> "execute", instr |-> instr,
                                  before |-> Machine, panic |-> out.panic])
    /\ UNCHANGED <<now, overflow_checks, timer, word, instruction, position>>

\* the environment of an instruction that reads no key and draws no random byte
Quiet == Env(now, 0, {}, 0, overflow_checks)

\* the machine after the instructions of the sequence run from m, one execute
\* each (every instruction used with it returns)
RECURSIVE Prepared(_, _, _)
Prepared(m, instrs, checks) ==
    IF instrs = <<>>
    THEN m
    ELSE LET out == execute(m.cpu, Head(instrs), m.ram.memory, m.display.pixels,
                            Env(0, 0, {}, 0, checks))
         IN  Prepared([cpu |-> out.cpu,
                       ram |-> [m.ram EXCEPT !.memory = out.memory],
                       display |-> [m.display EXCEPT !.pixels = out.pixels]],
                      Tail(instrs), checks)

---------------------------------------------------------------------------
(* Loading a ROM: CHIP8::load_rom on a new machine and on one that has run *)

\* how many loads one behaviour makes
MaxLoads == 2

\* The ROMs offered, as <<length, seed>>: empty, short, exactly filling the
\* program region, one byte too long, as long as the memory, longer than it.
RomPool ==
    {<<0, 0>>, <<2, 1>>, <<3, 200>>, <<3584, 7>>, <<3585, 7>>, <<4096, 7>>,
     <<4097, 7>>, <<5000, 7>>}

\* the bytes of a ROM of the pool (zero bytes among them)
RomData(rom) == [k \in 1 .. rom[1] |-> (rom[2] + 37 * (k - 1)) % 256]

\* instruction sequences a machine may have run before a ROM is loaded
LoadPrefixes ==
    {<<>>,
     <<Set(0, 171), Set(1, 205), SetIndex(511), Store(1), Jump(768)>>,
     <<Set(2, 9), SetIndex(4090), Store(2), CallSub(1024)>>}

InitLoad ==
    /\ Fresh
    /\ \E prefix \in LoadPrefixes :
          StartsAs(Prepared(Chip8New(0), prefix, overflow_checks))

\* CHIP8::load_rom(rom_data).  An Err goes back to the caller and the machine
\* lives on; a panic ends the process.
LoadRom(rom) ==
    /\ panic = ""
    /\ Len(log) < MaxLoads
    /\ LET loaded == Chip8LoadRom(cpu, ram, RomData(rom), overflow_checks)
       IN  /\ cpu' = loaded.cpu
           /\ ram' = loaded.ram
           /\ panic' = IF loaded.result.tag = "panic" THEN loaded.result.message ELSE ""
           /\ log' = Append(log, [op |-> "load_rom", rom |-> rom,
                                  before |-> Machine, result |-> loaded.result])
    /\ UNCHANGED <<display, now, overflow_checks, timer, word, instruction, position>>

NextLoad == \E rom \in RomPool : LoadRom(rom)

SpecLoad == InitLoad /\ [][NextLoad]_vars

\* the loads of the history
Loads == {k \in 1 .. Len(log) : log[k].op = "load_rom"}

\* C1: Ram::load_rom returns Err(InvalidRomSize(len)) for every ROM longer than
\* 4096 - 0x200 = 3584 bytes, however long, and Ok for every other ROM; it never
\* aborts instead.
C1_LoadRomReturnsErrOrOk ==
    \A k \in Loads :
        LET len == log[k].rom[1]
        IN  IF len > 3584
            THEN log[k].result = InvalidRomSize(len)
            ELSE log[k].result = Ok

\* C2: a CHIP8::load_rom that fails with InvalidRomSize leaves the whole machine
\* (memory, pc, i, registers, stack, timers) as it was before the call.
C2_FailedLoadLeavesMachine ==
    \A k \in Loads :
        log[k].result.tag = "InvalidRomSize" => After(k) = log[k].before

\* C3: a load_rom that returns Ok has copied the ROM verbatim to
\* memory[0x200 .. 0x200 + len) and left every other byte of the memory as it was.
C3_LoadCopiesVerbatim ==
    \A k \in Loads :
        log[k].result = Ok =>
            LET len == log[k].rom[1]
                rom_data == RomData(log[k].rom)
                old == log[k].before.ram.memory
                new == After(k).ram.memory
            IN  \A a \in 0 .. (MEMORY_SIZE - 1) :
                    MemAt(new, a) = IF a >= 512 /\ a < 512 + len
                                    THEN rom_data[a - 512 + 1]
                                    ELSE MemAt(old, a)

\* C3's case: a successful load of at least two bytes into a memory that held
\* non-zero bytes below 0x200, inside the copied span and above it
C3_Witness ==
    \E k \in Loads :
        LET len == log[k].rom[1]
            old == log[k].before.ram.memory
        IN  /\ log[k].result = Ok
            /\ len >= 2
            /\ \E a \in 0 .. 511 : MemAt(old, a) # 0
            /\ \E a \in 512 .. (511 + len) : MemAt(old, a) # 0
            /\ \E a \in (512 + len) .. (MEMORY_SIZE - 1) : MemAt(old, a) # 0
            /\ After(k).ram.memory # old

---------------------------------------------------------------------------
(* Decoding: CPU::decode on every 16-bit word *)

Words == 0 .. U16_MAX

\* the word to decode is any 16-bit value
InitDecode ==
    /\ StartsAs(Chip8New(0))
    /\ now = 0
    /\ overflow_checks \in BOOLEAN
    /\ panic = ""
    /\ timer = TimerNew(0)
    /\ word \in Words
    /\ instruction = [op |-> ""]
    /\ position = "load_rom"
    /\ log = <<>>

\* CPU::decode(word): an associated function, it touches no machine state
Decode ==
    /\ log = <<>>
    /\ instruction' = decode(word)
    /\ log' = <<[op |-> "decode", word |-> word]>>
    /\ UNCHANGED <<cpu, ram, display, now, overflow_checks, panic, timer, word, position>>

NextDecode == Decode

SpecDecode == InitDecode /\ [][NextDecode]_vars

\* the operand fields of a word, by bit position
FieldX(w) == (w \div 256) % 16
FieldY(w) == (w \div 16) % 16
FieldNN(w) == w % 256
FieldNNN(w) == w % 4096

\* the words the claim names as unknown
NamedUnknown(w) ==
    LET family == w \div 4096
        low == w % 256
    IN  \/ family = 0 /\ low \notin {224, 238}
        \/ family = 8 /\ (low % 16) \notin ((0 .. 7) \cup {14})
        \/ family = 14 /\ low \notin {158, 161}
        \/ family = 15 /\ low \notin {7, 10, 21, 24, 30, 41, 51, 85, 101}

\* the instruction kinds of the sixteen families
FamilyKinds(family) ==
    CASE family = 0 -> {"ClearScreen", "Return"}
      [] family = 1 -> {"Jump"}
      [] family = 2 -> {"CallSub"}
      [] family = 3 -> {"SkipEq"}
      [] family = 4 -> {"SkipNEq"}
      [] family = 5 -> {"SkipRegEq"}
      [] family = 6 -> {"Set"}
      [] family = 7 -> {"Add"}
      [] family = 8 -> {"AluOperation"}
      [] family = 9 -> {"SkipRegNEq"}
      [] family = 10 -> {"SetIndex"}
      [] family = 11 -> {"JumpWithOffset"}
      [] family = 12 -> {"Random"}
      [] family = 13 -> {"Display"}
      [] family = 14 -> {"SkipIfPressed", "SkipIfNotPressed"}
      [] family = 15 -> {"GetDelayTimer", "WaitForKey", "SetDelayTimer",
                         "SetSoundTimer", "AddToIndex", "SetIndexToFontLocation",
                         "BCDConversion", "Store", "Load"}

\* C4: CPU::decode is total (it never reaches its unreachable arm), extracts
\* x = bits 11..8, y = bits 7..4, nn = the low byte, nnn = the low 12 bits, and
\* returns Unknown(word) exactly for the words the claim lists; every other word
\* decodes to an instruction of its family.
C4_DecodeTotalAndExact ==
    log # <<>> =>
        LET has(f) == f \in DOMAIN instruction
        IN  /\ instruction.op # Unreachable.op
            /\ has("x") => instruction.x = FieldX(word)
            /\ has("y") => instruction.y = FieldY(word)
            /\ has("nn") => instruction.nn = FieldNN(word)
            /\ has("nnn") => instruction.nnn = FieldNNN(word)
            /\ has("height") => instruction.height = word % 16
            /\ (instruction.op = "Unknown") <=> NamedUnknown(word)
            /\ instruction.op = "Unknown" => instruction = Unknown(word)
            /\ instruction.op # "Unknown" =>
                   instruction.op \in FamilyKinds(word \div 4096)

\* C4's case: a word of the ALU family whose low nibble names no operation has
\* been decoded, to Unknown
C4_Witness ==
    /\ log # <<>>
    /\ word \div 4096 = 8
    /\ word % 16 = 15
    /\ instruction = Unknown(word)

---------------------------------------------------------------------------
(* A Timer and the clock: set_value, get_value, and time passing *)

\* how many steps (sets, reads, waits) one behaviour of the timer makes
MaxTimerSteps == 5

\* the values handed to set_value
TimerValues == {0, 100, 255}

\* How long a caller lets pass, in microseconds: half a tick period, and 1, 100
\* and 256 whole periods of 1/60 s, each rounded up to the microsecond (the
\* repository's tests sleep this way, k periods and a little more).
Waits == {8334, 16667, 1666667, 4266667}

\* timer.set_value(value)
SetValue(value) ==
    /\ Len(log) < MaxTimerSteps
    /\ timer' = TimerSetValue(timer, value, now)
    /\ log' = Append(log, [op |-> "set_value", at |-> now, value |-> value])
    /\ UNCHANGED <<cpu, ram, display, now, overflow_checks, panic, word, instruction, position>>

\* timer.get_value()
GetValue ==
    /\ Len(log) < MaxTimerSteps
    /\ timer' = TimerGetValue(timer, now)
    /\ log' = Append(log, [op |-> "get_value", at |-> now, value |-> timer'.value])
    /\ UNCHANGED <<cpu, ram, display, now, overflow_checks, panic, word, instruction, position>>

\* the clock moves on
Wait(micros) ==
    /\ Len(log) < MaxTimerSteps
    /\ now' = now + micros
    /\ log' = Append(log, [op |-> "wait", at |-> now, value |-> micros])
    /\ UNCHANGED <<cpu, ram, display, overflow_checks, panic, timer, word, instruction, position>>

NextTimer ==
    \/ \E value \in TimerValues : SetValue(value)
    \/ GetValue
    \/ \E micros \in Waits : Wait(micros)

SpecTimer == Created /\ [][NextTimer]_vars

\* the set_value calls and the get_value calls of the history
Sets == {k \in 1 .. Len(log) : log[k].op = "set_value"}
Gets == {k \in 1 .. Len(log) : log[k].op = "get_value"}

\* the last set_value before step k (0 when there is none)
SetBefore(k) ==
    LET earlier == {j \in Sets : j < k}
    IN  IF earlier = {} THEN 0 ELSE CHOOSE j \in earlier : \A h \in earlier : h <= j

\* the whole periods of 1/60 s in a span of microseconds
WholeTicks(micros) == (micros * 60) \div 1000000

\* v - k, saturating at 0
SaturatingSub(v, k) == IF v >= k THEN v - k ELSE 0

\* what the timer set at step s should read at step k
Expected(s, k) ==
    SaturatingSub(log[s].value, WholeTicks(log[k].at - log[s].at))

C6_EveryReadCountsFromTheSet ==
    \A k \in Gets :
        LET s == SetBefore(k)
        IN  s # 0 => log[k].value = Expected(s, k)

---------------------------------------------------------------------------
(* Arithmetic between registers: AddRegReg, Sub and SubNeg on chosen registers *)

\* how many instructions one behaviour executes
MaxAluSteps == 1

\* the register values the machine starts with
AluValues == {0, 1, 127, 200, 255}

\* the registers named as x and as y: low, middle, next to the flag, the flag
AluRegisters == {0, 7, 14, 15}

AluPool ==
    {AluOperation(x, y, operation) :
        x \in AluRegisters, y \in AluRegisters,
        operation \in {"AddRegReg", "Sub", "SubNeg"}}

\* The machine has run Set(r, a) for the even registers and Set(r, b) for the odd
\* ones (VF among them), for any a and b of AluValues.
SetAll(a, b) ==
    [k \in 1 .. GENERAL_PURPOSE_REGISTERS_COUNT |->
        Set(k - 1, IF (k - 1) % 2 = 0 THEN a ELSE b)]

InitAlu ==
    /\ Fresh
    /\ \E a \in AluValues, b \in AluValues :
          StartsAs(Prepared(Chip8New(0), SetAll(a, b), overflow_checks))

ExecuteAluStep(instr) ==
    /\ Len(log) < MaxAluSteps
    /\ Execute(instr, Quiet)

NextAlu == \E instr \in AluPool : ExecuteAluStep(instr)

SpecAlu == InitAlu /\ [][NextAlu]_vars

\* the steps of the history that executed the ALU operation named
AluSteps(operation) ==
    {k \in 1 .. Len(log) :
        /\ log[k].op = "execute"
        /\ log[k].instr.op = "AluOperation"
        /\ log[k].instr.operation = operation}

\* registers before and after step k
RegsBefore(k) == log[k].before.cpu.registers
RegsAfter(k) == After(k).cpu.registers

\* C7 as stated: after AddRegReg(x, y), for all x and y (0xF among them), VF is 1
\* iff pre-Vx + pre-Vy > 255, else 0, and register x holds the sum mod 256.
C7_AddSetsFlagAndSum ==
    \A k \in AluSteps("AddRegReg") :
        LET x == log[k].instr.x
            sum == RegsBefore(k)[x] + RegsBefore(k)[log[k].instr.y]
        IN  /\ RegsAfter(k)[15] = (IF sum > 255 THEN 1 ELSE 0)
            /\ RegsAfter(k)[x] = sum % 256

\* C7 amended: VF is 1 iff pre-Vx + pre-Vy > 255, else 0, for all x and y; register
\* x holds the sum mod 256 when x is not 0xF (when it is, the flag is written over
\* the sum).
C7_AddSetsFlagThenSum ==
    \A k \in AluSteps("AddRegReg") :
        LET x == log[k].instr.x
            sum == RegsBefore(k)[x] + RegsBefore(k)[log[k].instr.y]
        IN  /\ RegsAfter(k)[15] = (IF sum > 255 THEN 1 ELSE 0)
            /\ x # 15 => RegsAfter(k)[x] = sum % 256

\* C7's case: an AddRegReg into VF itself that overflowed, so that VF holds the
\* carry and not the sum
C7_Witness ==
    \E k \in AluSteps("AddRegReg") :
        LET sum == RegsBefore(k)[15] + RegsBefore(k)[log[k].instr.y]
        IN  /\ log[k].instr.x = 15
            /\ sum > 255
            /\ sum % 256 # 1
            /\ RegsAfter(k)[15] = 1

\* the difference a - b on u8, and whether it borrows
Difference(a, b) == (a - b + 256) % 256
NoBorrow(a, b) == IF a >= b THEN 1 ELSE 0

\* C8 as stated: after Sub(x, y) VF is 1 iff pre-Vx >= pre-Vy and Vx is
\* (pre-Vx - pre-Vy) mod 256; after SubNeg(x, y) VF is 1 iff pre-Vy >= pre-Vx and
\* Vx is (pre-Vy - pre-Vx) mod 256; for all register indices.
C8_SubSetsFlagAndDifference ==
    /\ \A k \in AluSteps("Sub") :
          LET x == log[k].instr.x
              vx == RegsBefore(k)[x]
              vy == RegsBefore(k)[log[k].instr.y]
          IN  /\ RegsAfter(k)[15] = NoBorrow(vx, vy)
              /\ RegsAfter(k)[x] = Difference(vx, vy)
    /\ \A k \in AluSteps("SubNeg") :
          LET x == log[k].instr.x
              vx == RegsBefore(k)[x]
              vy == RegsBefore(k)[log[k].instr.y]
          IN  /\ RegsAfter(k)[15] = NoBorrow(vy, vx)
              /\ RegsAfter(k)[x] = Difference(vy, vx)

\* C8 amended: the flags as stated, for all register indices; register x holds the
\* difference when x is not 0xF (when it is, the flag is written over the
\* difference).
C8_SubSetsFlagThenDifference ==
    /\ \A k \in AluSteps("Sub") :
          LET x == log[k].instr.x
              vx == RegsBefore(k)[x]
              vy == RegsBefore(k)[log[k].instr.y]
          IN  /\ RegsAfter(k)[15] = NoBorrow(vx, vy)
              /\ x # 15 => RegsAfter(k)[x] = Difference(vx, vy)
    /\ \A k \in AluSteps("SubNeg") :
          LET x == log[k].instr.x
              vx == RegsBefore(k)[x]
              vy == RegsBefore(k)[log[k].instr.y]
          IN  /\ RegsAfter(k)[15] = NoBorrow(vy, vx)
              /\ x # 15 => RegsAfter(k)[x] = Difference(vy, vx)

\* C8's case: a SubNeg with pre-Vy > pre-Vx > 0 into a register other than VF,
\* which left the difference Vy - Vx there and 1 in VF
C8_Witness ==
    \E k \in AluSteps("SubNeg") :
        LET x == log[k].instr.x
            vx == RegsBefore(k)[x]
            vy == RegsBefore(k)[log[k].instr.y]
        IN  /\ x # 15
            /\ vy > vx
            /\ vx > 0
            /\ RegsAfter(k)[x] = vy - vx
            /\ RegsAfter(k)[15] = 1

---------------------------------------------------------------------------
(* Drawing: Display instructions on a machine that holds sprites *)

\* how many instructions one behaviour executes
MaxDrawSteps == 3

\* the ROM loaded before drawing: sprite rows at 0x200 .. 0x205
SpriteRom == <<255, 129, 0, 24, 128, 1>>

\* what V0 and V1 hold: positions inside the grid, at its right and bottom edges
\* (where a sprite is clipped), and values past 63 and 31
DrawV0 == {0, 60, 190}
DrawV1 == {1, 30, 95}

\* The instructions executed: draws of several heights with (V0, V1) and with
\* (V1, V0) as the position, a draw positioned by VF, and moves of i to other
\* sprite rows and to the last byte of the memory.
DrawPool ==
    {Display(0, 1, 1), Display(0, 1, 3), Display(1, 0, 2), Display(15, 1, 2),
     Display(0, 1, 0), SetIndex(515), SetIndex(4095)}

InitDraw ==
    /\ Fresh
    /\ \E v0 \in DrawV0, v1 \in DrawV1 :
          LET m == Chip8New(0)
              loaded == Chip8LoadRom(m.cpu, m.ram, SpriteRom, overflow_checks)
          IN  StartsAs(Prepared([m EXCEPT !.cpu = loaded.cpu, !.ram = loaded.ram],
                                <<Set(0, v0), Set(1, v1), SetIndex(512)>>,
                                overflow_checks))

ExecuteDrawStep(instr) ==
    /\ Len(log) < MaxDrawSteps
    /\ Execute(instr, Quiet)

NextDraw == \E instr \in DrawPool : ExecuteDrawStep(instr)

SpecDraw == InitDraw /\ [][NextDraw]_vars

\* the Display instructions of the history that returned
Draws ==
    {k \in 1 .. Len(log) :
        log[k].op = "execute" /\ log[k].instr.op = "Display" /\ log[k].panic = ""}

\* where draw k starts, how tall it is, and the i it reads from
DrawX(k) == log[k].before.cpu.registers[log[k].instr.x] % 64
DrawY(k) == log[k].before.cpu.registers[log[k].instr.y] % 32
DrawHeight(k) == log[k].instr.height
DrawI(k) == log[k].before.cpu.i

\* the grid before and after step k
PixelsBefore(k) == log[k].before.display.pixels
PixelsAfter(k) == After(k).display.pixels

\* the pixels of the grid under the set bits of the sprite draw k reads
SpriteBits(k) ==
    LET memory == log[k].before.ram.memory
    IN  {<<DrawY(k) + n, DrawX(k) + m>> :
            <<n, m>> \in {c \in (0 .. (DrawHeight(k) - 1)) \X (0 .. 7) :
                            /\ DrawY(k) + c[1] < 32
                            /\ DrawX(k) + c[2] < 64
                            /\ Bit(MemAt(memory, DrawI(k) + c[1]), 7 - c[2]) = 1}}

\* draws j and k draw the same sprite at the same place: same position, height
\* and i, and the same bytes in the sprite's rows
SameDraw(j, k) ==
    /\ DrawX(j) = DrawX(k)
    /\ DrawY(j) = DrawY(k)
    /\ DrawHeight(j) = DrawHeight(k)
    /\ DrawI(j) = DrawI(k)
    /\ \A n \in 0 .. (DrawHeight(j) - 1) :
          MemAt(log[j].before.ram.memory, DrawI(j) + n)
              = MemAt(log[k].before.ram.memory, DrawI(k) + n)

\* C9: two Display instructions executed one after the other at the same screen
\* location, with the same i and sprite bytes, leave the grid as it was before
\* the first.
C9_DrawTwiceRestoresGrid ==
    \A j \in Draws :
        (j + 1 \in Draws /\ SameDraw(j, j + 1)) =>
            PixelsAfter(j + 1) = PixelsBefore(j)

\* C9's case: a sprite with set bits drawn twice over a grid that already held
\* pixels, some of them under the sprite; the first draw changed the grid
C9_Witness ==
    \E j \in Draws :
        /\ j + 1 \in Draws
        /\ SameDraw(j, j + 1)
        /\ PixelsBefore(j) # {}
        /\ SpriteBits(j) \cap PixelsBefore(j) # {}
        /\ SpriteBits(j) \ PixelsBefore(j) # {}
        /\ PixelsAfter(j) # PixelsBefore(j)
        /\ PixelsAfter(j + 1) = PixelsBefore(j)

\* the draws strictly between draws j and k
Between(j, k) == {b \in Draws : j < b /\ b < k}

\* the pixels toggled an odd number of times by the steps j+1 .. k-1
RECURSIVE Toggled(_, _)
Toggled(j, k) ==
    IF j + 1 >= k
    THEN {}
    ELSE LET rest == Toggled(j, k - 1)
             step == (PixelsBefore(k - 1) \ PixelsAfter(k - 1))
                         \cup (PixelsAfter(k - 1) \ PixelsBefore(k - 1))
         IN  (rest \ step) \cup (step \ rest)

\* VF as step k left it
FlagAfter(k) == After(k).cpu.registers[15]

\* C10 as stated: when the same sprite is drawn twice at the same place, VF after
\* the second draw is 0 iff no other sprite overlapping it was drawn between the
\* two draws.
C10_SecondDrawFlagIffOverlap ==
    \A j \in Draws : \A k \in Draws :
        (j < k /\ SameDraw(j, k)) =>
            ((FlagAfter(k) = 0)
                <=> (\A b \in Between(j, k) : SpriteBits(b) \cap SpriteBits(j) = {}))

\* C10 amended: VF after the second draw is 0 iff every pixel under a set bit of
\* the sprite is off when the second draw begins, that is, was on before the first
\* draw and left alone in between, or off before it and toggled in between; so two
\* draws with nothing in between leave VF = 1 unless the first lit no pixel.
C10_SecondDrawFlagIffErasing ==
    \A j \in Draws : \A k \in Draws :
        (j < k /\ SameDraw(j, k)) =>
            ((FlagAfter(k) = 0)
                <=> (\A p \in SpriteBits(j) :
                        (p \in PixelsBefore(j)) # (p \in Toggled(j, k))))

\* C10's case: a sprite with set bits drawn on pixels that were off, and drawn
\* again straight after, which erased it and left VF = 1
C10_Witness ==
    \E j \in Draws :
        /\ j + 1 \in Draws
        /\ SameDraw(j, j + 1)
        /\ SpriteBits(j) # {}
        /\ SpriteBits(j) \cap PixelsBefore(j) = {}
        /\ FlagAfter(j + 1) = 1

\* every Display instruction of the history, the ones that panicked included
AllDraws == {k \in 1 .. Len(log) : log[k].op = "execute" /\ log[k].instr.op = "Display"}

\* the 64 x 32 grid as <<row, column>> pairs
Grid == (0 .. (CHIP8_DISPLAY_HEIGHT - 1)) \X (0 .. (CHIP8_DISPLAY_WIDTH - 1))

\* the pixels step k changed
Changed(k) == (PixelsBefore(k) \ PixelsAfter(k)) \cup (PixelsAfter(k) \ PixelsBefore(k))

\* the box of draw k cut at the right and bottom edges: (cy + n, cx + m) with
\* 0 <= m < 8, 0 <= n < height, cx + m < 64 and cy + n < 32
ClippedBox(k) ==
    {p \in Grid :
        /\ DrawY(k) <= p[1] /\ p[1] < DrawY(k) + DrawHeight(k)
        /\ DrawX(k) <= p[2] /\ p[2] < DrawX(k) + 8}

\* the set bits of the sprite draw k reads that fall past the right edge or
\* below the bottom edge, as <<n, m>>
DroppedBits(k) ==
    LET memory == log[k].before.ram.memory
    IN  {c \in (0 .. (DrawHeight(k) - 1)) \X (0 .. 7) :
            /\ DrawY(k) + c[1] >= 32 \/ DrawX(k) + c[2] >= 64
            /\ Bit(MemAt(memory, DrawI(k) + c[1]), 7 - c[2]) = 1}

\* C11: a Display instruction starts at (Vx mod 64, Vy mod 32) and changes only
\* pixels of its 8 x height box that lie inside the grid: columns and rows past
\* the right or bottom edge are dropped, nothing is written outside the grid or
\* wrapped to the opposite edge, and every other pixel is unchanged.  (The pixels
\* it changes are those under the set bits of the sprite that lie in the grid.)
C11_DrawClipsAtEdges ==
    /\ display.pixels \subseteq Grid
    /\ \A k \in AllDraws : Changed(k) \subseteq ClippedBox(k)
    /\ \A k \in Draws : Changed(k) = SpriteBits(k)

\* C11's case: a draw whose sprite has set bits past the right edge and set bits
\* below the bottom edge, and which changed pixels in the last column and row
C11_Witness ==
    \E k \in Draws :
        /\ \E c \in DroppedBits(k) : DrawX(k) + c[2] >= 64 /\ DrawY(k) + c[1] < 32
        /\ \E c \in DroppedBits(k) : DrawY(k) + c[1] >= 32
        /\ \E p \in Changed(k) : p[2] = 63
        /\ \E p \in Changed(k) : p[1] = 31
        /\ log[k].before.cpu.registers[log[k].instr.x] >= 64

\* VF as it stood before step k
FlagBefore(k) == log[k].before.cpu.registers[15]

\* C12: after every Display instruction, whatever VF held before, VF = 1 iff a
\* set bit of the sprite fell on a pixel of the grid that was set before this
\* draw, and VF = 0 otherwise (a draw of height 0 and a draw clipped away whole
\* included).
C12_FlagIsCollision ==
    \A k \in Draws :
        FlagAfter(k) = IF SpriteBits(k) \cap PixelsBefore(k) # {} THEN 1 ELSE 0

\* C12's case: VF = 1 is cleared by a draw of height 0 with pixels lit, after a
\* draw that collided and a draw that did not
C12_Witness ==
    \E j \in Draws : \E k \in Draws : \E z \in Draws :
        /\ SpriteBits(j) # {} /\ FlagAfter(j) = 0
        /\ FlagBefore(k) = 0 /\ FlagAfter(k) = 1
        /\ DrawHeight(z) = 0 /\ FlagBefore(z) = 1 /\ FlagAfter(z) = 0
        /\ PixelsBefore(z) # {}

---------------------------------------------------------------------------
(* Memory through i: Store, Load, BCDConversion and SetIndexToFontLocation *)

\* how many instructions one behaviour executes
MaxIndexSteps == 3

\* what i holds at the start: the first bytes of the memory, the program region,
\* the last 16 bytes and the last byte
IndexStarts == {0, 1, 768, 4080, 4095}

\* what the registers hold at the start: V0 = 123, V3 = 174, V5 = 208, VF = 122
IndexRegisters == [r \in Registers |-> (123 + 17 * r) % 256]

\* The instructions executed: stores and loads of 1, 4 and 16 registers, writes
\* to registers, a move of i, and the two instructions that take a digit of Vx.
IndexPool ==
    {Store(0), Store(3), Store(15), Load(0), Load(3), Load(15),
     Set(0, 9), Set(3, 77), Set(5, 10), SetIndex(770),
     BCDConversion(3), SetIndexToFontLocation(5)}

InitIndex ==
    /\ Fresh
    /\ \E start \in IndexStarts :
          LET m == Chip8New(0)
          IN  StartsAs([m EXCEPT !.cpu.registers = IndexRegisters, !.cpu.i = start])

ExecuteIndexStep(instr) ==
    /\ Len(log) < MaxIndexSteps
    /\ Execute(instr, Quiet)

NextIndex == \E instr \in IndexPool : ExecuteIndexStep(instr)

SpecIndex == InitIndex /\ [][NextIndex]_vars

\* the steps of the history that executed an instruction of the kind op
StepsOf(op) == {k \in 1 .. Len(log) : log[k].op = "execute" /\ log[k].instr.op = op}

\* i and the memory before step k, and the memory after it
IndexBefore(k) == log[k].before.cpu.i
MemoryBefore(k) == log[k].before.ram.memory
MemoryAfter(k) == After(k).ram.memory

\* C13: for i + x < 4096, Store(x) copies registers 0..=x into memory[i..=i+x],
\* and a later Load(x) with the same i, with the memory not changed in between,
\* sets registers 0..=x back to what they held at the Store, whatever was
\* written to them in between.
C13_StoreLoadRoundTrip ==
    /\ \A j \in StepsOf("Store") :
          LET x == log[j].instr.x
          IN  IndexBefore(j) + x < 4096 =>
                /\ log[j].panic = ""
                /\ \A r \in 0 .. x :
                      MemAt(MemoryAfter(j), IndexBefore(j) + r) = RegsBefore(j)[r]
    /\ \A j \in StepsOf("Store") : \A k \in StepsOf("Load") :
          LET x == log[j].instr.x
          IN  (/\ j < k
               /\ log[k].instr.x = x
               /\ IndexBefore(k) = IndexBefore(j)
               /\ IndexBefore(j) + x < 4096
               /\ \A b \in (j + 1) .. k : MemoryBefore(b) = MemoryAfter(j))
              => /\ log[k].panic = ""
                 /\ \A r \in 0 .. x : RegsAfter(k)[r] = RegsBefore(j)[r]

\* C13's case: 16 registers stored in the last 16 bytes of the memory, one of
\* them overwritten, and all 16 loaded back
C13_Witness ==
    \E j \in StepsOf("Store") : \E k \in StepsOf("Load") :
        /\ j + 1 < k
        /\ log[j].instr.x = 15 /\ log[k].instr.x = 15
        /\ IndexBefore(j) = 4080 /\ IndexBefore(k) = 4080
        /\ MemoryBefore(j) # MemoryAfter(j)
        /\ MemoryBefore(k) = MemoryAfter(j)
        /\ RegsBefore(k) # RegsBefore(j)
        /\ RegsAfter(k) = RegsBefore(j)

\* the addresses at which two memories differ
Differ(m1, m2) == {a \in DOMAIN m1 \cup DOMAIN m2 : MemAt(m1, a) # MemAt(m2, a)}

\* C14: for i + 2 < 4096, BCDConversion(x) leaves memory[i] = Vx / 100,
\* memory[i + 1] = (Vx / 10) mod 10 and memory[i + 2] = Vx mod 10, and changes
\* no other byte of the memory.
C14_BcdWritesThreeDigits ==
    \A k \in StepsOf("BCDConversion") :
        LET vx == RegsBefore(k)[log[k].instr.x]
            i == IndexBefore(k)
        IN  i + 2 < 4096 =>
              /\ log[k].panic = ""
              /\ MemAt(MemoryAfter(k), i) = vx \div 100
              /\ MemAt(MemoryAfter(k), i + 1) = (vx \div 10) % 10
              /\ MemAt(MemoryAfter(k), i + 2) = vx % 10
              /\ Differ(MemoryBefore(k), MemoryAfter(k)) \subseteq {i, i + 1, i + 2}

\* C15: SetIndexToFontLocation(x), with Vx in 0..15, sets i to 0x50 + 5 * Vx.
C15_FontLocationOfVx ==
    \A k \in StepsOf("SetIndexToFontLocation") :
        LET vx == RegsBefore(k)[log[k].instr.x]
        IN  vx <= 15 => log[k].panic = "" /\ After(k).cpu.i = 80 + 5 * vx

---------------------------------------------------------------------------
(* The run: main loads a ROM and CHIP8::start ticks the machine for ever *)

\* 00E0 1200: ClearScreen, then Jump(0x200)
ScenarioRom == <<0, 224, 18, 0>>

\* 2204 00EE 00EE: CallSub(0x204), whose Return comes back to a second Return
ReturnRom == <<34, 4, 0, 238, 0, 238>>

\* The ROMs main is given: the two above; 7001 1200, a loop that counts in V0;
\* 00E0 FFFF, a word that is no instruction; AFFF F155, a Store at the last byte;
\* 1FFF, a jump to the last byte; A800 F033, a BCDConversion in the upper half;
\* AFFF D012, a sprite read at the last byte; A050 60AA F055 1206, a Store at
\* 0x50; and a ROM one byte too long.
RunRoms ==
    {ScenarioRom,
     ReturnRom,
     <<112, 1, 18, 0>>,
     <<0, 224, 255, 255>>,
     <<175, 255, 241, 85>>,
     <<31, 255>>,
     <<168, 0, 240, 51>>,
     <<175, 255, 208, 18>>,
     <<160, 80, 96, 170, 240, 85, 18, 6>>,
     RomData(<<3585, 7>>)}

\* main: chip8.load_rom(&rom_data).unwrap(), after which chip8.start(false)
\* begins to tick.  unwrap panics on the Err.
LoadAndStart(rom_data) ==
    /\ position = "load_rom"
    /\ panic = ""
    /\ LET loaded == Chip8LoadRom(cpu, ram, rom_data, overflow_checks)
       IN  /\ cpu' = loaded.cpu
           /\ ram' = loaded.ram
           /\ panic' = CASE loaded.result.tag = "panic" -> loaded.result.message
                         [] loaded.result.tag = "InvalidRomSize" ->
                              "called Result::unwrap() on an Err value"
                         [] OTHER -> ""
           /\ position' = IF loaded.result = Ok THEN "fetch" ELSE "load_rom"
    /\ log' = Append(log, [op |-> "load_rom", rom_data |-> rom_data])
    /\ UNCHANGED <<display, now, overflow_checks, timer, word, instruction>>

\* CHIP8::tick, first call: self.cpu.fetch(self.ram.memory)
TickFetch ==
    /\ position = "fetch"
    /\ panic = ""
    /\ LET fetched == fetch(cpu, ram.memory, overflow_checks)
       IN  /\ cpu' = fetched.cpu
           /\ word' = IF fetched.panic = "" THEN fetched.word ELSE word
           /\ panic' = fetched.panic
           /\ position' = IF fetched.panic = "" THEN "decode" ELSE "fetch"
    /\ UNCHANGED <<ram, display, now, overflow_checks, timer, instruction, log>>

\* CHIP8::tick, second call: CPU::decode(instruction)
TickDecode ==
    /\ position = "decode"
    /\ panic = ""
    /\ instruction' = decode(word)
    /\ position' = "execute"
    /\ UNCHANGED <<cpu, ram, display, now, overflow_checks, panic, timer, word, log>>

\* CHIP8::tick, third call: self.cpu.execute(instruction, memory, display);
\* when it returns, start sleeps and ticks again
TickExecute ==
    /\ position = "execute"
    /\ panic = ""
    /\ LET out == execute(cpu, instruction, ram.memory, display.pixels, Quiet)
       IN  /\ cpu' = out.cpu
           /\ ram' = [ram EXCEPT !.memory = out.memory]
           /\ display' = [display EXCEPT !.pixels = out.pixels]
           /\ panic' = out.panic
           /\ position' = IF out.panic = "" THEN "fetch" ELSE "execute"
    /\ UNCHANGED <<now, overflow_checks, timer, word, instruction, log>>

NextRun ==
    \/ \E rom_data \in RunRoms : LoadAndStart(rom_data)
    \/ TickFetch
    \/ TickDecode
    \/ TickExecute

SpecRun == Created /\ [][NextRun]_vars

\* the loop of CHIP8::start has no exit: while the process lives it takes its
\* next step
SpecRunFair == SpecRun /\ WF_vars(NextRun)

\* execute is about to run an instruction that the code treats as fatal
FatalInstruction ==
    /\ position = "execute"
    /\ \/ instruction.op = "Unknown"
       \/ instruction.op = "Return" /\ cpu.stack = <<>>

\* C16: executing Return on an empty call stack, or Unknown(word), aborts the run
\* at once: the step is no silent no-op, it leaves pc (and the rest of the
\* machine) as it was rather than guessing a value, and once the run has aborted
\* no further step is taken.
C16_FatalErrorsAbort ==
    [][/\ panic = ""
       /\ FatalInstruction =>
             /\ panic' # ""
             /\ cpu' = cpu /\ ram' = ram /\ display' = display
             /\ position' = position]_vars

\* C16's case: the run aborted in the second Return of ReturnRom, after the
\* CallSub and the first Return had run, with pc left at 0x204
C16_Witness ==
    /\ log # <<>> /\ log[1].rom_data = ReturnRom
    /\ panic = "Return while stack is empty."
    /\ position = "execute"
    /\ instruction = Return
    /\ cpu.stack = <<>>
    /\ cpu.pc = 516

\* C17: an unknown opcode and Return on an empty stack are the only conditions
\* under which execute aborts: whatever ROM was loaded, when the run has aborted
\* in execute the instruction was one of these two.
C17_OnlyUnknownAndReturnAbort ==
    (panic # "" /\ position = "execute") => FatalInstruction

\* the ROM main loaded is ScenarioRom
ScenarioLoaded == log # <<>> /\ log[1].rom_data = ScenarioRom

\* execute is about to run instr
Executing(instr) == position = "execute" /\ instruction = instr

\* what C18 says of every state once ScenarioRom is loaded
ScenarioState ==
    ScenarioLoaded =>
        /\ panic = ""
        /\ cpu.pc \in {512, 514, 516}
        /\ cpu.registers = [r \in Registers |-> 0]
        /\ cpu.i = 0
        /\ cpu.stack = <<>>
        /\ ram.memory = MemCopy(<<>>, 512, ScenarioRom)
        /\ display.pixels = {}
        /\ position \in {"fetch", "decode", "execute"}

\* C18: after the 4-byte ROM 00 E0 12 00 is loaded the tick loop runs for ever
\* without aborting: in every state pc is 0x200, 0x202 or 0x204, the registers
\* and i are 0, the stack is empty, the memory is the loaded image and the
\* display is all false; the instructions executed alternate ClearScreen and
\* Jump(0x200), ClearScreen first, and each of the two is executed again and
\* again.
C18_ScenarioLoopsForEver ==
    /\ []ScenarioState
    /\ [][(ScenarioLoaded /\ position = "decode") =>
              instruction' = IF instruction = ClearScreen THEN Jump(512) ELSE ClearScreen]_vars
    /\ (ScenarioLoaded ~> Executing(ClearScreen))
    /\ (ScenarioLoaded /\ Executing(ClearScreen) ~> Executing(Jump(512)))
    /\ (ScenarioLoaded /\ Executing(Jump(512)) ~> Executing(ClearScreen))

\* C18's case: the loop has gone round once: Jump(0x200) has been executed and
\* the next fetch is at 0x200 again
C18_Witness ==
    /\ ScenarioLoaded
    /\ position = "fetch"
    /\ instruction = Jump(512)
    /\ cpu.pc = 512

\* the 5 bytes of the memory where the glyph of digit d is kept
FontGlyph(d) == [b \in 0 .. 4 |-> MemAt(ram.memory, FONT_LOCATION + 5 * d + b)]

\* C19: from creation on, in every state, memory [0x50, 0x50 + 80) holds the
\* built-in font of 16 glyphs of 5 bytes each; whatever the font, its 16 glyphs
\* are 16 different glyphs.
C19_FontRegionHoldsFont ==
    \A d \in 0 .. 15 : \A e \in 0 .. 15 : d # e => FontGlyph(d) # FontGlyph(e)

\* C20: whatever ROM was loaded, fetch is entered with pc + 1 < 4096.
C20_FetchEnteredInBounds ==
    position = "fetch" => cpu.pc + 1 < MEMORY_SIZE

---------------------------------------------------------------------------
(* Shifts: ShiftRight and ShiftLeft on chosen registers *)

\* how many instructions one behaviour executes
MaxShiftSteps == 1

\* what the registers hold before the step: a in the even ones, b in the odd
\* ones (VF among them)
RegistersOf(a, b) == [r \in Registers |-> IF r % 2 = 0 THEN a ELSE b]

\* the instructions a machine has run, after those that set its registers: two
\* registers stored at 0x300, a call from 0x200, a sprite drawn, and VF set
\* again after the draw
RegisterPrefix(b) ==
    <<SetIndex(768), Store(1), Jump(512), CallSub(1024), Display(0, 1, 2), Set(15, b)>>

\* the machine before the step
Used(a, b, checks) ==
    Prepared([Chip8New(0) EXCEPT !.cpu.registers = RegistersOf(a, b)],
             RegisterPrefix(b), checks)

ShiftPool ==
    {AluOperation(x, y, operation) :
        x \in AluRegisters, y \in AluRegisters,
        operation \in {"ShiftRight", "ShiftLeft"}}

InitShift ==
    /\ Fresh
    /\ \E a \in AluValues, b \in AluValues :
          StartsAs(Used(a, b, overflow_checks))

ExecuteShiftStep(instr) ==
    /\ Len(log) < MaxShiftSteps
    /\ Execute(instr, Quiet)

NextShift == \E instr \in ShiftPool : ExecuteShiftStep(instr)

SpecShift == InitShift /\ [][NextShift]_vars

\* the shifts of the history
Shifts == AluSteps("ShiftRight") \cup AluSteps("ShiftLeft")

\* the bit of Vx that shift k pushes out, and Vx shifted by one
ShiftedOut(k) ==
    LET vx == RegsBefore(k)[log[k].instr.x]
    IN  IF log[k].instr.operation = "ShiftRight" THEN vx % 2 ELSE vx \div 128

ShiftedBy1(k) ==
    LET vx == RegsBefore(k)[log[k].instr.x]
    IN  IF log[k].instr.operation = "ShiftRight" THEN vx \div 2 ELSE (vx * 2) % 256

\* C22: ShiftRight(x, y) sets VF to the low bit of the pre-shift Vx and Vx to
\* pre-Vx >> 1; ShiftLeft(x, y) sets VF to the high bit of the pre-shift Vx and
\* Vx to (pre-Vx << 1) mod 256 (Vx when it is not VF itself).
C22_ShiftSetsFlag ==
    \A k \in Shifts :
        /\ RegsAfter(k)[15] = ShiftedOut(k)
        /\ log[k].instr.x # 15 => RegsAfter(k)[log[k].instr.x] = ShiftedBy1(k)

\* everything of the machine but the registers
Besides(m) == [m EXCEPT !.cpu.registers = [r \in Registers |-> 0]]

\* C25: ShiftRight(x, y) and ShiftLeft(x, y) write the bit shifted out into
\* register y, not into VF: for x # y, Vy is that bit and Vx is pre-Vx shifted by
\* one; every register other than x and y (VF too, when neither is 0xF), pc, i,
\* the stack, the memory and the display are unchanged.
C25_ShiftWritesBitToVy ==
    \A k \in Shifts :
        LET x == log[k].instr.x
            y == log[k].instr.y
        IN  /\ log[k].panic = ""
            /\ x # y => /\ RegsAfter(k)[y] = ShiftedOut(k)
                        /\ RegsAfter(k)[x] = ShiftedBy1(k)
            /\ \A r \in Registers \ {x, y} : RegsAfter(k)[r] = RegsBefore(k)[r]
            /\ Besides(After(k)) = Besides(log[k].before)

\* C25's case: a shift of V0 = 127 with y = 7, which set V7 from 200 to 1 and
\* left VF at 200, on a machine with a call on the stack, the memory written and
\* pixels lit
C25_Witness ==
    \E k \in AluSteps("ShiftRight") :
        /\ log[k].instr.x = 0 /\ log[k].instr.y = 7
        /\ RegsBefore(k)[0] = 127
        /\ RegsBefore(k)[7] = 200 /\ RegsAfter(k)[7] = 1
        /\ RegsBefore(k)[15] = 200 /\ RegsAfter(k)[15] = 200
        /\ RegsAfter(k)[0] = 63
        /\ log[k].before.cpu.stack # <<>>
        /\ log[k].before.ram.memory # <<>>
        /\ log[k].before.display.pixels # {}

---------------------------------------------------------------------------
(* Skips and the operations that carry no flag *)

\* how many instructions one behaviour executes
MaxPlainSteps == 1

\* the registers named as x and as y, and the bytes given as nn
PlainRegisters == {0, 7, 15}
PlainBytes == {1, 200}

PlainPool ==
    {Add(x, nn) : x \in PlainRegisters, nn \in PlainBytes}
    \cup {AluOperation(x, y, operation) :
            x \in PlainRegisters, y \in PlainRegisters,
            operation \in {"LoadRegReg", "Or", "And", "Xor"}}
    \cup {SkipEq(x, nn) : x \in PlainRegisters, nn \in PlainBytes}
    \cup {SkipNEq(x, nn) : x \in PlainRegisters, nn \in PlainBytes}
    \cup {SkipRegEq(x, y) : x \in PlainRegisters, y \in PlainRegisters}
    \cup {SkipRegNEq(x, y) : x \in PlainRegisters, y \in PlainRegisters}

InitPlain ==
    /\ Fresh
    /\ \E a \in AluValues, b \in AluValues : StartsAs(Used(a, b, overflow_checks))

ExecutePlainStep(instr) ==
    /\ Len(log) < MaxPlainSteps
    /\ Execute(instr, Quiet)

NextPlain == \E instr \in PlainPool : ExecutePlainStep(instr)

SpecPlain == InitPlain /\ [][NextPlain]_vars

\* the conditional skips of the history
Skips == StepsOf("SkipEq") \cup StepsOf("SkipNEq") \cup StepsOf("SkipRegEq")
             \cup StepsOf("SkipRegNEq")

\* the condition on which skip k skips
SkipCondition(k) ==
    LET instr == log[k].instr
        V == RegsBefore(k)
    IN  CASE instr.op = "SkipEq" -> V[instr.x] = instr.nn
          [] instr.op = "SkipNEq" -> V[instr.x] # instr.nn
          [] instr.op = "SkipRegEq" -> V[instr.x] = V[instr.y]
          [] instr.op = "SkipRegNEq" -> V[instr.x] # V[instr.y]

\* everything of the machine but pc
BesidesPc(m) == [m EXCEPT !.cpu.pc = 0]

\* C26: SkipEq, SkipNEq, SkipRegEq and SkipRegNEq add exactly 2 to pc when their
\* condition (Vx = nn, Vx # nn, Vx = Vy, Vx # Vy) holds and leave pc as it is
\* when it does not; registers, i, the stack, the memory and the display are
\* unchanged either way.
C26_SkipsAddTwoOrNothing ==
    \A k \in Skips :
        /\ log[k].panic = ""
        /\ After(k).cpu.pc = log[k].before.cpu.pc + (IF SkipCondition(k) THEN 2 ELSE 0)
        /\ BesidesPc(After(k)) = BesidesPc(log[k].before)

\* C26's case: a SkipRegEq on two different registers holding the same value,
\* which skipped; the machine has a return address on its stack and pixels lit
C26_Witness ==
    \E k \in StepsOf("SkipRegEq") :
        /\ log[k].instr.x # log[k].instr.y
        /\ RegsBefore(k)[log[k].instr.x] = 200
        /\ SkipCondition(k)
        /\ log[k].before.cpu.pc = 1024
        /\ After(k).cpu.pc = 1026
        /\ log[k].before.cpu.stack # <<>>
        /\ log[k].before.display.pixels # {}

\* the byte whose bit k is f[k]
FromBits(f) ==
    f[0] + 2 * f[1] + 4 * f[2] + 8 * f[3] + 16 * f[4] + 32 * f[5] + 64 * f[6] + 128 * f[7]

\* a | b, a & b and a ^ b, bit by bit
OrBits(a, b) == FromBits([k \in 0 .. 7 |-> IF Bit(a, k) + Bit(b, k) >= 1 THEN 1 ELSE 0])
AndBits(a, b) == FromBits([k \in 0 .. 7 |-> IF Bit(a, k) + Bit(b, k) = 2 THEN 1 ELSE 0])
XorBits(a, b) == FromBits([k \in 0 .. 7 |-> IF Bit(a, k) + Bit(b, k) = 1 THEN 1 ELSE 0])

\* the steps of the history that carry no flag
FlagFree ==
    StepsOf("Add") \cup AluSteps("LoadRegReg") \cup AluSteps("Or") \cup AluSteps("And")
        \cup AluSteps("Xor")

\* what step k of FlagFree is to leave in register x
PlainResult(k) ==
    LET instr == log[k].instr
        vx == RegsBefore(k)[instr.x]
    IN  IF instr.op = "Add"
        THEN (vx + instr.nn) % 256
        ELSE LET vy == RegsBefore(k)[instr.y]
             IN  CASE instr.operation = "LoadRegReg" -> vy
                   [] instr.operation = "Or" -> OrBits(vx, vy)
                   [] instr.operation = "And" -> AndBits(vx, vy)
                   [] instr.operation = "Xor" -> XorBits(vx, vy)

\* C27: Add(x, nn) sets Vx to (Vx + nn) mod 256, and Or, And, Xor and LoadRegReg
\* set Vx to Vx | Vy, Vx & Vy, Vx ^ Vy and Vy; each changes register x only: VF
\* (when x is not 0xF), every other register, pc, i, the stack and the memory are
\* unchanged.
C27_FlagFreeOperations ==
    \A k \in FlagFree :
        LET x == log[k].instr.x
        IN  /\ log[k].panic = ""
            /\ RegsAfter(k)[x] = PlainResult(k)
            /\ \A r \in Registers \ {x} : RegsAfter(k)[r] = RegsBefore(k)[r]
            /\ Besides(After(k)) = Besides(log[k].before)

\* C27's case: an Or of two registers that left in Vx a value neither held, with
\* VF = 200 before and after
C27_Witness ==
    \E k \in AluSteps("Or") :
        LET x == log[k].instr.x
        IN  /\ x # 15
            /\ RegsBefore(k)[15] = 200 /\ RegsAfter(k)[15] = 200
            /\ RegsAfter(k)[x] # RegsBefore(k)[x]
            /\ RegsAfter(k)[x] # RegsBefore(k)[log[k].instr.y]
            /\ log[k].before.cpu.stack # <<>>

---------------------------------------------------------------------------
(* Calls and returns: programs of CallSub, Return and Jump, tick by tick *)

\* how many ticks one behaviour runs
MaxCallTicks == 6

\* how many instructions a program has
CallSlots == 3

\* the words a program is made of: Return, Jump and CallSub to each instruction
\* of the program
CallWords ==
    {238} \cup {4096 + ROM_START_LOCATION + 2 * n : n \in 0 .. (CallSlots - 1)}
          \cup {8192 + ROM_START_LOCATION + 2 * n : n \in 0 .. (CallSlots - 1)}

\* the ROM that holds the words of a program, high byte first
WordsRom(program) ==
    [k \in 1 .. (2 * Len(program)) |->
        IF k % 2 = 1 THEN program[(k + 1) \div 2] \div 256 ELSE program[k \div 2] % 256]

\* a new machine with a program loaded
InitCall ==
    /\ Fresh
    /\ \E program \in [1 .. CallSlots -> CallWords] :
          LET m == Chip8New(0)
              loaded == Chip8LoadRom(m.cpu, m.ram, WordsRom(program), overflow_checks)
          IN  StartsAs([m EXCEPT !.cpu = loaded.cpu, !.ram = loaded.ram])

\* CHIP8::tick as one step: fetch, decode, execute.  A panic in fetch ends the
\* tick before anything is decoded.
Tick ==
    /\ panic = ""
    /\ LET fetched == fetch(cpu, ram.memory, overflow_checks)
           instr == decode(fetched.word)
           out == IF fetched.panic # ""
                  THEN Outcome(fetched.cpu, ram.memory, display.pixels, fetched.panic)
                  ELSE execute(fetched.cpu, instr, ram.memory, display.pixels, Quiet)
       IN  /\ cpu' = out.cpu
           /\ ram' = [ram EXCEPT !.memory = out.memory]
           /\ display' = [display EXCEPT !.pixels = out.pixels]
           /\ panic' = out.panic
           /\ word' = IF fetched.panic = "" THEN fetched.word ELSE word
           /\ instruction' = IF fetched.panic = "" THEN instr ELSE instruction
           /\ log' = Append(log, [op |-> "execute",
                                  instr |-> IF fetched.panic = "" THEN instr ELSE [op |-> ""],
                                  before |-> Machine, panic |-> out.panic])
    /\ UNCHANGED <<now, overflow_checks, timer, position>>

CallTick ==
    /\ Len(log) < MaxCallTicks
    /\ Tick

NextCall == CallTick

SpecCall == InitCall /\ [][NextCall]_vars

\* the return addresses pushed and not yet popped after k ticks: a CallSub at
\* address a adds a + 2, a Return takes the last one added
RECURSIVE Pending(_)
Pending(k) ==
    IF k = 0
    THEN <<>>
    ELSE LET p == Pending(k - 1)
         IN  CASE log[k].instr.op = "CallSub" -> Append(p, log[k].before.cpu.pc + 2)
               [] log[k].instr.op = "Return" /\ p # <<>> -> SubSeq(p, 1, Len(p) - 1)
               [] OTHER -> p

\* the calls, and the returns from a call, among the first k ticks
CallsBy(k) == {j \in 1 .. k : log[j].instr.op = "CallSub"}
ReturnsBy(k) == {j \in 1 .. k : log[j].instr.op = "Return" /\ Pending(j - 1) # <<>>}

\* C23: CallSub(nnn) pushes the address of the instruction after the call and
\* sets pc = nnn; a Return sets pc to the address pushed last and not yet
\* popped; so return addresses are consumed last in, first out, and the depth of
\* the stack is the number of calls minus the number of returns.
C23_CallsReturnLastInFirstOut ==
    \A k \in 1 .. Len(log) :
        LET instr == log[k].instr
            p == Pending(k - 1)
        IN  /\ instr.op = "CallSub" =>
                  /\ log[k].panic = ""
                  /\ After(k).cpu.pc = instr.nnn
                  /\ After(k).cpu.stack = Append(log[k].before.cpu.stack,
                                                 log[k].before.cpu.pc + 2)
            /\ (instr.op = "Return" /\ p # <<>>) =>
                  /\ log[k].panic = ""
                  /\ After(k).cpu.pc = p[Len(p)]
            /\ After(k).cpu.stack = Pending(k)
            /\ Len(After(k).cpu.stack) = Cardinality(CallsBy(k)) - Cardinality(ReturnsBy(k))

\* C23's case: two calls nested, from different addresses, and the two returns
\* that took their addresses back, the inner one first
C23_Witness ==
    \E k \in 1 .. Len(log) :
        /\ k + 1 <= Len(log)
        /\ log[k].instr.op = "Return" /\ log[k + 1].instr.op = "Return"
        /\ Len(Pending(k - 1)) = 2
        /\ Pending(k - 1)[1] # Pending(k - 1)[2]
        /\ After(k).cpu.pc = Pending(k - 1)[2]
        /\ After(k + 1).cpu.pc = Pending(k - 1)[1]
        /\ After(k + 1).cpu.stack = <<>>

---------------------------------------------------------------------------
(* The index register growing: AddToIndex again and again *)

\* the instructions executed: V0 is set to 255, and V0 is added to i
GrowPool == {Set(0, 255), AddToIndex(0)}

\* One call of CPU::execute that keeps no history; the instruction executed is
\* left in `instruction`.
ExecuteOnly(instr) ==
    /\ panic = ""
    /\ LET out == execute(cpu, instr, ram.memory, display.pixels, Quiet)
       IN  /\ cpu' = out.cpu
           /\ ram' = [ram EXCEPT !.memory = out.memory]
           /\ display' = [display EXCEPT !.pixels = out.pixels]
           /\ panic' = out.panic
    /\ instruction' = instr
    /\ UNCHANGED <<now, overflow_checks, timer, word, position, log>>

NextGrow == \E instr \in GrowPool : ExecuteOnly(instr)

SpecGrow == Created /\ [][NextGrow]_vars

\* C24: AddToIndex(x), for every i the program can reach and every Vx, leaves i
\* at exactly i + Vx, with no wraparound (modulo 0x1000 or modulo 2^16) and
\* without aborting; register x becomes 1 exactly when the new i is above 0xFFF
\* and the old i was not, and otherwise every register is unchanged.
C24_AddToIndexAddsExactly ==
    [][(panic = "" /\ instruction' = AddToIndex(0)) =>
          LET sum == cpu.i + cpu.registers[0]
          IN  /\ panic' = ""
              /\ cpu'.i = sum
              /\ cpu'.registers = IF sum > 4095 /\ cpu.i <= 4095
                                  THEN [cpu.registers EXCEPT ![0] = 1]
                                  ELSE cpu.registers]_vars

---------------------------------------------------------------------------
(* cpu.rs: impl fmt::Display for Instruction, disassemble *)

\* the digits of {:X} and of {}
Digits == <<"0", "1", "2", "3", "4", "5", "6", "7", "8", "9", "A", "B", "C", "D", "E", "F">>

\* {:X}: upper-case hexadecimal, no leading zeros
RECURSIVE UpperHex(_)
UpperHex(n) == IF n < 16 THEN Digits[n + 1] ELSE UpperHex(n \div 16) \o Digits[(n % 16) + 1]

\* {}: decimal
RECURSIVE Decimal(_)
Decimal(n) == IF n < 10 THEN Digits[n + 1] ELSE Decimal(n \div 10) \o Digits[(n % 10) + 1]

\* fmt::Display for Instruction
Format(instr) ==
    LET op == instr.op
        Vx == "V" \o UpperHex(instr.x)
        Vy == "V" \o UpperHex(instr.y)
        nn == "0x" \o UpperHex(instr.nn)
        nnn == "0x" \o UpperHex(instr.nnn)
    IN  CASE op = "ClearScreen" -> "CLS"
          [] op = "Return" -> "RET"
          [] op = "Jump" -> "JP " \o nnn
          [] op = "CallSub" -> "CALL " \o nnn
          [] op = "SkipEq" -> "SE " \o Vx \o ", " \o nn
          [] op = "SkipNEq" -> "SNE " \o Vx \o ", " \o nn
          [] op = "SkipRegEq" -> "SE " \o Vx \o ", " \o Vy
          [] op = "Set" -> "LD " \o Vx \o ", " \o nn
          [] op = "Add" -> "ADD " \o Vx \o ", " \o nn
          [] op = "AluOperation" ->
               (CASE instr.operation = "LoadRegReg" -> "LD " \o Vx \o ", " \o Vy
                  [] instr.operation = "Or" -> "OR " \o Vx \o ", " \o Vy
                  [] instr.operation = "And" -> "AND " \o Vx \o ", " \o Vy
                  [] instr.operation = "Xor" -> "XOR " \o Vx \o ", " \o Vy
                  [] instr.operation = "AddRegReg" -> "ADD " \o Vx \o ", " \o Vy
                  [] instr.operation = "Sub" -> "SUB " \o Vx \o ", " \o Vy
                  [] instr.operation = "ShiftRight" -> "SHR " \o Vx \o " {, " \o Vy \o "}"
                  [] instr.operation = "SubNeg" -> "SUBN " \o Vx \o ", " \o Vy
                  [] instr.operation = "ShiftLeft" -> "SHL " \o Vx \o " {, " \o Vy \o "}")
          [] op = "SkipRegNEq" -> "SNE " \o Vx \o ", " \o Vy
          [] op = "SetIndex" -> "LD I, " \o nnn
          [] op = "JumpWithOffset" -> "JP V0, " \o nnn
          [] op = "Random" -> "RND " \o Vx \o ", " \o nn
          [] op = "Display" -> "DRW " \o Vx \o ", " \o Vy \o ", " \o UpperHex(instr.height)
          [] op = "SkipIfPressed" -> "SKP " \o Vx
          [] op = "SkipIfNotPressed" -> "SKNP " \o Vx
          [] op = "GetDelayTimer" -> "LD " \o Vx \o ", DT"
          [] op = "WaitForKey" -> "LD " \o Vx \o ", K"
          [] op = "SetDelayTimer" -> "LD DT, " \o Vx
          [] op = "SetSoundTimer" -> "LD ST, " \o Vx
          [] op = "AddToIndex" -> "ADD I, " \o Vx
          [] op = "SetIndexToFontLocation" -> "LD F, " \o Vx
          [] op = "BCDConversion" -> "LD B, " \o Vx
          [] op = "Store" -> "LD [I], " \o Vx
          [] op = "Load" -> "LD " \o Vx \o ", [I]"
          [] op = "Unknown" -> ".dw 0x" \o UpperHex(instr.word)

\* disassemble(rom_data): the lines written to the result, one writeln! each,
\* in order: one per chunk of chunks_exact(2), then one for an odd last byte
disassemble(rom_data) ==
    LET chunks == Len(rom_data) \div 2
        lines == [k \in 1 .. chunks |->
                     Format(decode(rom_data[2 * k - 1] * 256 + rom_data[2 * k]))]
    IN  IF Len(rom_data) % 2 = 1
        THEN Append(lines, ".db 0x" \o Decimal(rom_data[Len(rom_data)]))
        ELSE lines

\* the low bytes of the words disassembled: those that CPU::decode tells apart
\* under the families 0x0, 0x8, 0xE and 0xF, and others
LowBytes ==
    {0, 1, 7, 10, 21, 24, 30, 41, 51, 85, 101, 127, 158, 161, 224, 238, 255}
        \cup (128 .. 143)

\* The ROMs disassembled: a ROM of 2 bytes for every high byte and each of the
\* low bytes above, every byte as a ROM of 1 byte, the empty ROM, and ROMs of 3,
\* 4 and 5 bytes.
DisassembleRoms ==
    {<<high, low>> : high \in Byte, low \in LowBytes}
        \cup {<<b>> : b \in Byte}
        \cup {<<>>, <<0, 224, 9>>, <<18, 0, 255>>, <<0, 224, 18, 0>>,
              <<96, 10, 138, 182, 16>>, <<216, 127, 240, 51, 200>>}

\* disassemble called once on a ROM; it takes no machine and changes none
Disassemble(rom_data) ==
    /\ log = <<>>
    /\ log' = <<[op |-> "disassemble", rom_data |-> rom_data,
                 result |-> disassemble(rom_data)]>>
    /\ UNCHANGED <<cpu, ram, display, now, overflow_checks, panic, timer, word,
                   instruction, position>>

NextDisassemble == \E rom_data \in DisassembleRoms : Disassemble(rom_data)

SpecDisassemble == Created /\ [][NextDisassemble]_vars

\* C21: disassemble(bytes) gives floor(len / 2) + (len mod 2) lines; line k, for
\* k < floor(len / 2), is the formatter's text of decode((bytes[2k] << 8) |
\* bytes[2k + 1]); when len is odd the last line is the raw data directive for
\* the last byte, its value written in hexadecimal after 0x as every other number
\* of the listing is.
C21_DisassembleLines ==
    \A k \in 1 .. Len(log) :
        log[k].op = "disassemble" =>
            LET bytes == log[k].rom_data
                result == log[k].result
                len == Len(bytes)
            IN  /\ Len(result) = (len \div 2) + (len % 2)
                /\ \A n \in 1 .. (len \div 2) :
                      result[n] = Format(decode(bytes[2 * n - 1] * 256 + bytes[2 * n]))
                /\ len % 2 = 1 => result[Len(result)] = ".db 0x" \o UpperHex(bytes[len])

---------------------------------------------------------------------------
(* The wait for a key: a program that runs into WaitForKey while the terminal
   delivers bytes *)

\* how many bytes can be typed ahead of the program
MaxStdin == 2

\* CLIBackend::new: the characters of the sixteen keys, 1 2 3 4 q w e r a s d f
\* z x c v, as the bytes stdin delivers them
key_map == <<49, 50, 51, 52, 113, 119, 101, 114, 97, 115, 100, 102, 122, 120, 99, 118>>

\* self.key_map.iter().position(|k| b == *k): the index of the first key with
\* the character b, None when there is none
KeyPosition(b) ==
    IF \E n \in 1 .. Len(key_map) : key_map[n] = b
    THEN [tag |-> "Some",
          value |-> (CHOOSE n \in 1 .. Len(key_map) :
                        /\ key_map[n] = b
                        /\ \A m \in 1 .. (n - 1) : key_map[m] # b) - 1]
    ELSE [tag |-> "None"]

\* the bytes typed: the keys 1, r and v, the letter p and a carriage return
StdinBytes == {49, 114, 118, 112, 13}

\* F30A 1200: WaitForKey(3) and a jump back to it; and 00E0 FF0A 1200:
\* ClearScreen, WaitForKey(15), a jump back to the start
KeyRoms == {<<243, 10, 18, 0>>, <<0, 224, 255, 10, 18, 0>>}

\* the bytes typed and not yet read by the program
stdin == display.backend.stdin

\* a machine with the CLI backend, one of the ROMs loaded, about to tick;
\* nothing is typed yet
InitKey ==
    /\ now = 0
    /\ overflow_checks \in BOOLEAN
    /\ panic = ""
    /\ timer = TimerNew(0)
    /\ word = 0
    /\ instruction = [op |-> ""]
    /\ position = "fetch"
    /\ log = <<>>
    /\ \E rom_data \in KeyRoms :
          LET m == Chip8New(0)
              loaded == Chip8LoadRom(m.cpu, m.ram, rom_data, overflow_checks)
          IN  StartsAs([cpu |-> loaded.cpu,
                        ram |-> loaded.ram,
                        display |-> [pixels |-> m.display.pixels,
                                     backend |-> [stdin |-> <<>>]]])

\* CPU::execute of an instruction other than WaitForKey
ExecuteOther ==
    /\ instruction.op # "WaitForKey"
    /\ TickExecute

\* CPU::execute of WaitForKey calls display.wait_for_key(), which begins to read
\* stdin
EnterWaitForKey ==
    /\ position = "execute"
    /\ panic = ""
    /\ instruction.op = "WaitForKey"
    /\ position' = "wait_for_key"
    /\ UNCHANGED <<cpu, ram, display, now, overflow_checks, panic, timer, word,
                   instruction, log>>

\* CLIBackend::wait_for_key takes the next byte of stdin (the read blocks while
\* there is none; at the end of the input the byte iterator ends and the loop
\* makes a new one, which changes nothing).  A byte that is no key is dropped;
\* a key's index is returned, execute stores it and the tick is over.
WaitForKeyRead ==
    /\ position = "wait_for_key"
    /\ panic = ""
    /\ stdin # <<>>
    /\ LET b == Head(stdin)
           found == KeyPosition(b)
       IN  IF found.tag = "Some"
           THEN LET out == execute(cpu, instruction, ram.memory, display.pixels,
                                   Env(now, 0, {}, found.value, overflow_checks))
                IN  /\ cpu' = out.cpu
                    /\ ram' = [ram EXCEPT !.memory = out.memory]
                    /\ display' = [display EXCEPT !.pixels = out.pixels,
                                                  !.backend.stdin = Tail(stdin)]
                    /\ panic' = out.panic
                    /\ position' = IF out.panic = "" THEN "fetch" ELSE "wait_for_key"
           ELSE /\ display' = [display EXCEPT !.backend.stdin = Tail(stdin)]
                /\ UNCHANGED <<cpu, ram, panic, position>>
    /\ UNCHANGED <<now, overflow_checks, timer, word, instruction, log>>

\* b.unwrap(): a read of stdin that fails while the program waits for input
\* panics
StdinFails ==
    /\ position = "wait_for_key"
    /\ panic = ""
    /\ stdin = <<>>
    /\ panic' = "called Result::unwrap() on an Err value"
    /\ UNCHANGED <<cpu, ram, display, now, overflow_checks, timer, word,
                   instruction, position, log>>

\* somebody types the byte b
KeyPress(b) ==
    /\ panic = ""
    /\ Len(stdin) < MaxStdin
    /\ display' = [display EXCEPT !.backend.stdin = Append(stdin, b)]
    /\ UNCHANGED <<cpu, ram, now, overflow_checks, panic, timer, word,
                   instruction, position, log>>

\* the steps of the program
KeyProgram ==
    \/ TickFetch
    \/ TickDecode
    \/ ExecuteOther
    \/ EnterWaitForKey
    \/ WaitForKeyRead

NextKey ==
    \/ KeyProgram
    \/ StdinFails
    \/ \E b \in StdinBytes : KeyPress(b)

SpecKey == InitKey /\ [][NextKey]_vars

\* the thread of CHIP8::start keeps running: a step the program can take is
\* taken.  Nothing obliges anybody to type.
SpecKeyFair == SpecKey /\ WF_vars(KeyProgram)

\* the program is inside display.wait_for_key()
Waiting == position = "wait_for_key" /\ panic = ""

\* a key is among the bytes typed and not yet read
KeyTyped == \E n \in 1 .. Len(stdin) : \E k \in 1 .. 16 : key_map[k] = stdin[n]

\* the parts of the machine the wait leaves alone
Untouched ==
    /\ cpu' = cpu
    /\ ram' = ram
    /\ display'.pixels = display.pixels
    /\ word' = word
    /\ instruction' = instruction

\* C28: WaitForKey(x) is the only suspension point: a living program that cannot
\* take a step is inside the wait of a WaitForKey with nothing to read.  While
\* it waits, pc, registers, i, stack, memory and display do not change and no
\* other instruction is fetched, decoded or executed.  The wait ends with the
\* key k in 0..15 that was typed first: Vx = k and nothing else has changed.
\* And a wait with a key typed ends.
C28_WaitForKeySuspends ==
    /\ [](panic = "" /\ ~(ENABLED KeyProgram) =>
              /\ Waiting
              /\ instruction.op = "WaitForKey"
              /\ stdin = <<>>)
    /\ [][Waiting /\ position' = "wait_for_key" => Untouched]_vars
    /\ [][Waiting /\ position' # "wait_for_key" =>
              /\ panic' = ""
              /\ position' = "fetch"
              /\ stdin # <<>>
              /\ \E k \in 0 .. 15 :
                    /\ key_map[k + 1] = Head(stdin)
                    /\ cpu' = [cpu EXCEPT !.registers[instruction.x] = k]
              /\ ram' = ram
              /\ display'.pixels = display.pixels
              /\ word' = word
              /\ instruction' = instruction]_vars
    /\ (Waiting /\ KeyTyped) ~> ~Waiting

\* C28's case: the second ROM's WaitForKey(15) has ended with the key v, number
\* 15, in VF after the letter p was passed over; pc is at the jump that follows
\* and a byte typed since is still unread
C28_Witness ==
    /\ MemAt(ram.memory, 514) = 255 /\ MemAt(ram.memory, 515) = 10
    /\ position = "fetch"
    /\ panic = ""
    /\ instruction = WaitForKey(15)
    /\ cpu.registers[15] = 15
    /\ cpu.pc = 516
    /\ stdin = <<112>>

===========================================================================
